---- MODULE Spec2Model ----
(***************************************************************************)
(* Excel rule validation: the expression parser (rule_parser.py) and the   *)
(* evaluation engine (rule_engine.py).                                     *)
(*                                                                         *)
(* Python strings are sequences of one-character strings, so that strip,   *)
(* split, lower/upper, substring tests and the regular expressions of the  *)
(* parser are computed character by character, as the code computes them.  *)
(***************************************************************************)
EXTENDS Integers, Sequences, FiniteSets, TLC

(***************************************************************************)
(* Characters and the str methods the code uses                            *)
(***************************************************************************)

UpperChars == <<"A","B","C","D","E","F","G","H","I","J","K","L","M",
                "N","O","P","Q","R","S","T","U","V","W","X","Y","Z">>

LowerChars == <<"a","b","c","d","e","f","g","h","i","j","k","l","m",
                "n","o","p","q","r","s","t","u","v","w","x","y","z">>

DigitChars == <<"0","1","2","3","4","5","6","7","8","9">>

Range(f) == {f[i] : i \in DOMAIN f}

UpperSet == Range(UpperChars)

LowerSet == Range(LowerChars)

DigitSet == Range(DigitChars)

SpaceSet == {" ", "\t", "\n", "\r"}

IsUpper(c) == c \in UpperSet

IsLower(c) == c \in LowerSet

IsDigit(c) == c \in DigitSet

\* str.isspace for one character (\s of the re module)
IsSpace(c) == c \in SpaceSet

\* \w of the re module: letters, digits and the underscore
WordSet == UpperSet \cup LowerSet \cup DigitSet \cup {"_"}

IsWordChar(c) == c \in WordSet

IndexIn(c, seq) == CHOOSE i \in DOMAIN seq : seq[i] = c

\* the lower-case form of each capital and the capital of each small letter
LowerOf == [c \in UpperSet |-> LowerChars[IndexIn(c, UpperChars)]]

UpperOf == [c \in LowerSet |-> UpperChars[IndexIn(c, LowerChars)]]

\* the value of each digit
DigitOf == [c \in DigitSet |-> IndexIn(c, DigitChars) - 1]

LowerChar(c) == IF IsUpper(c) THEN LowerOf[c] ELSE c

UpperChar(c) == IF IsLower(c) THEN UpperOf[c] ELSE c

\* str.lower()
Lower(s) == [i \in DOMAIN s |-> LowerChar(s[i])]

\* str.upper()
Upper(s) == [i \in DOMAIN s |-> UpperChar(s[i])]

\* s[a-1:b] of Python for 1-based inclusive bounds: b is cut to the length of
\* s, and the slice is empty when a > b
Slice(s, a, b) ==
    LET e == IF b > Len(s) THEN Len(s) ELSE b
    IN IF a > e THEN << >> ELSE SubSeq(s, a, e)

\* str.strip(chars) with the characters to remove given as a set
StripSet(s, cs) ==
    LET Keep(keep) ==
            IF keep = {} THEN << >>
            ELSE SubSeq(s, CHOOSE i \in keep : \A j \in keep : i <= j,
                           CHOOSE i \in keep : \A j \in keep : j <= i)
    IN Keep({i \in DOMAIN s : s[i] \notin cs})

\* str.strip()
Strip(s) == StripSet(s, SpaceSet)

\* sub occurs in s starting at (1-based) position p
MatchAt(sub, s, p) ==
    /\ p >= 1
    /\ p + Len(sub) - 1 <= Len(s)
    /\ \A k \in 1..Len(sub) : s[p + k - 1] = sub[k]

\* str.find(sub, p - 1) + 1: the first position of sub in s from position p
\* on, 0 when absent
FindFrom(sub, s, p) ==
    LET First(ps) == IF ps = {} THEN 0 ELSE CHOOSE q \in ps : \A r \in ps : q <= r
    IN First({q \in p..(Len(s) - Len(sub) + 1) : MatchAt(sub, s, q)})

\* str.find(sub) + 1
Find(sub, s) == FindFrom(sub, s, 1)

\* "sub in s" of Python
Contains(sub, s) == Find(sub, s) > 0

\* str.startswith
StartsWith(s, prefix) == MatchAt(prefix, s, 1)

\* str.endswith
EndsWith(s, suffix) == MatchAt(suffix, s, Len(s) - Len(suffix) + 1)

\* str.split(sep, 1): one or two parts
SplitOnce(s, sep) ==
    LET At(p) == IF p = 0 THEN <<s>>
                 ELSE <<Slice(s, 1, p - 1), Slice(s, p + Len(sep), Len(s))>>
    IN At(Find(sep, s))

\* the end (exclusive) of the run of whitespace, word characters or digits
\* that starts at p: what a greedy \s+, \w+ or \d+ consumes from p
RECURSIVE SpaceRunEnd(_, _)
SpaceRunEnd(s, p) ==
    IF p <= Len(s) /\ IsSpace(s[p]) THEN SpaceRunEnd(s, p + 1) ELSE p

RECURSIVE WordRunEnd(_, _)
WordRunEnd(s, p) ==
    IF p <= Len(s) /\ IsWordChar(s[p]) THEN WordRunEnd(s, p + 1) ELSE p

RECURSIVE DigitRunEnd(_, _)
DigitRunEnd(s, p) ==
    IF p <= Len(s) /\ IsDigit(s[p]) THEN DigitRunEnd(s, p + 1) ELSE p

\* str.split(): the maximal runs of non-whitespace characters
RECURSIVE SplitWhitespace(_)
SplitWhitespace(s) ==
    LET Cut(t, p) ==
            <<SubSeq(t, 1, p - 1)>> \o SplitWhitespace(Slice(t, p, Len(t)))
        Spaces(t, sp) ==
            IF sp = {} THEN <<t>>
            ELSE Cut(t, CHOOSE i \in sp : \A j \in sp : i <= j)
        Words(t) ==
            IF t = << >> THEN << >>
            ELSE Spaces(t, {i \in DOMAIN t : IsSpace(t[i])})
    IN Words(Strip(s))

\* sep.join(parts)
RECURSIVE Join(_, _)
Join(sep, parts) ==
    IF parts = << >> THEN << >>
    ELSE IF Len(parts) = 1 THEN parts[1]
    ELSE parts[1] \o sep \o Join(sep, Tail(parts))

\* re.sub(r'[^\w\s]', '', s): s without its punctuation characters
RECURSIVE RemovePunctuation(_)
RemovePunctuation(s) ==
    IF s = << >> THEN << >>
    ELSE (IF IsWordChar(Head(s)) \/ IsSpace(Head(s)) THEN <<Head(s)>> ELSE << >>)
         \o RemovePunctuation(Tail(s))

\* str(n) for a non-negative int
RECURSIVE NatToStr(_)
NatToStr(n) ==
    IF n < 10 THEN <<DigitChars[n + 1]>>
    ELSE NatToStr(n \div 10) \o <<DigitChars[(n % 10) + 1]>>

\* str(n) for an int
IntToStr(n) == IF n < 0 THEN <<"-">> \o NatToStr(-n) ELSE NatToStr(n)

(***************************************************************************)
(* Python values: the cells of a row and the value of a condition          *)
(*                                                                         *)
(* A value is an int, a float or a str.  A float is the decimal m / 10^d   *)
(* with no trailing zero in m when d > 0.  The int 10**400, which is too   *)
(* large for a float, is the int with huge = TRUE; every other int of the  *)
(* model is its field m.                                                   *)
(* The strings of the model hold no exponent, inf, nan or digit-grouping   *)
(* underscore spelling of a number.                                        *)
(***************************************************************************)

VInt(n) == [t |-> "int", m |-> n, d |-> 0, s |-> << >>, huge |-> FALSE]

VFloat(mant, dec) == [t |-> "float", m |-> mant, d |-> dec, s |-> << >>, huge |-> FALSE]

VStr(str) == [t |-> "str", m |-> 0, d |-> 0, s |-> str, huge |-> FALSE]

\* the int 10**400
VHuge == [t |-> "int", m |-> 0, d |-> 0, s |-> << >>, huge |-> TRUE]

\* the float of a decimal literal with mantissa mant and dec decimals
RECURSIVE NormFloat(_, _)
NormFloat(mant, dec) ==
    IF dec > 0 /\ mant % 10 = 0 THEN NormFloat(mant \div 10, dec - 1)
    ELSE VFloat(mant, dec)

IsStr(v) == v.t = "str"

RECURSIVE Pow10(_)
Pow10(n) == IF n = 0 THEN 1 ELSE 10 * Pow10(n - 1)

\* the value of a string of digits
RECURSIVE DigitsValue(_)
DigitsValue(ds) ==
    IF ds = << >> THEN 0
    ELSE 10 * DigitsValue(SubSeq(ds, 1, Len(ds) - 1))
         + DigitOf[ds[Len(ds)]]

\* the sign and the unsigned body of a numeric literal
LiteralSign(s) == IF s # << >> /\ s[1] = "-" THEN -1 ELSE 1

LiteralBody(s) == IF s # << >> /\ s[1] \in {"-", "+"} THEN Tail(s) ELSE s

\* int(s) succeeds: optional sign, then digits only
IsIntLiteral(s) ==
    LET Digits(b) == b # << >> /\ \A i \in DOMAIN b : IsDigit(b[i])
    IN Digits(LiteralBody(Strip(s)))

\* float(s) succeeds: optional sign, digits with at most one point, a digit
IsFloatLiteral(s) ==
    LET Decimal(b) ==
            /\ \A i \in DOMAIN b : IsDigit(b[i]) \/ b[i] = "."
            /\ \E i \in DOMAIN b : IsDigit(b[i])
            /\ Cardinality({i \in DOMAIN b : b[i] = "."}) <= 1
    IN Decimal(LiteralBody(Strip(s)))

\* int(s) for a string that IsIntLiteral
ParseInt(s) ==
    LET Signed(t) == LiteralSign(t) * DigitsValue(LiteralBody(t))
    IN Signed(Strip(s))

\* float(s) for a string that IsFloatLiteral, as the pair (mantissa, decimals)
ParseFloat(s) ==
    LET Parts(t, ip, fp) ==
            [m |-> LiteralSign(t) * DigitsValue(ip \o fp), d |-> Len(fp)]
        Point(t, b, p) ==
            Parts(t, IF p = 0 THEN b ELSE Slice(b, 1, p - 1),
                     IF p = 0 THEN << >> ELSE Slice(b, p + 1, Len(b)))
        Body(t, b) == Point(t, b, Find(<<".">>, b))
        Signed(t) == Body(t, LiteralBody(t))
    IN Signed(Strip(s))

\* float(v): the number, or the exception float() raises
ToFloat(v) ==
    LET Number(f) == [exc |-> "none", m |-> f.m, d |-> f.d]
    IN IF v.t = "int"
       THEN IF v.huge THEN [exc |-> "OverflowError", m |-> 0, d |-> 0]
            ELSE [exc |-> "none", m |-> v.m, d |-> 0]
       ELSE IF v.t = "float" THEN [exc |-> "none", m |-> v.m, d |-> v.d]
       ELSE IF IsFloatLiteral(v.s) THEN Number(ParseFloat(v.s))
       ELSE [exc |-> "ValueError", m |-> 0, d |-> 0]

\* a < b, a = b for two floats
FloatLess(a, b) == a.m * Pow10(b.d) < b.m * Pow10(a.d)

FloatEq(a, b) == a.m * Pow10(b.d) = b.m * Pow10(a.d)

\* repr of a float: no trailing zeros, at least one decimal
RECURSIVE FloatToStr(_, _)
FloatToStr(mant, dec) ==
    LET Digits(a, frac) ==
            (IF mant < 0 THEN <<"-">> ELSE << >>)
            \o NatToStr(a \div Pow10(dec)) \o <<".">>
            \o [i \in 1..(dec - Len(frac)) |-> "0"] \o frac
        Abs(a) == Digits(a, NatToStr(a % Pow10(dec)))
    IN IF dec > 1 /\ mant % 10 = 0 THEN FloatToStr(mant \div 10, dec - 1)
       ELSE IF dec = 0 THEN FloatToStr(mant * 10, 1)
       ELSE Abs(IF mant < 0 THEN -mant ELSE mant)

\* str(v)
Str(v) ==
    IF v.t = "str" THEN v.s
    ELSE IF v.t = "int"
    THEN (IF v.huge THEN <<"1">> \o [i \in 1..400 |-> "0"] ELSE IntToStr(v.m))
    ELSE FloatToStr(v.m, v.d)

(***************************************************************************)
(* rule_parser.py: the value and operator model                            *)
(***************************************************************************)

\* LogicalOperator
AND == "AND"

OR == "OR"

\* the str values of ConditionType
GREATER_THAN == <<">">>

LESS_THAN == <<"<">>

GREATER_EQUAL == <<">", "=">>

LESS_EQUAL == <<"<", "=">>

EQUAL == <<"=">>

NOT_EQUAL == <<"!", "=">>

CONTAINS == <<"c","o","n","t","a","i","n","s">>

STARTS_WITH == <<"s","t","a","r","t","s","_","w","i","t","h">>

ENDS_WITH == <<"e","n","d","s","_","w","i","t","h">>

\* Condition(column, operator, value)
Condition(column, operator, value) ==
    [column |-> column, operator |-> operator, value |-> value]

\* RuleReference(rule_name)
RuleReference(rule_name) == [rule_name |-> rule_name]

\* Rule(name, conditions, logical_ops, action, description, rule_references)
Rule(name, conditions, logical_ops, action, description, rule_references) ==
    [name |-> name, conditions |-> conditions, logical_ops |-> logical_ops,
     action |-> action, description |-> description,
     rule_references |-> rule_references]

\* Optional[...]: None, or a value
None == [some |-> FALSE, v |-> << >>]

Some(x) == [some |-> TRUE, v |-> x]

\* the truth value Python gives an Optional[str]: None and '' are false
Truthy(opt) == opt.some /\ opt.v # << >>

(***************************************************************************)
(* rule_parser.py: RuleParser                                              *)
(***************************************************************************)

\* a variant of _find_column that prefers a column spelled exactly as the name
FindColumnExactFirst(name, available_columns) ==
    LET First(ps) == CHOOSE q \in ps : \A r \in ps : q <= r
        Pick(exact, folded) ==
            IF exact # {} THEN Some(available_columns[First(exact)])
            ELSE IF folded # {} THEN Some(available_columns[First(folded)])
            ELSE None
        Named(n) ==
            Pick({i \in DOMAIN available_columns : available_columns[i] = n},
                 {i \in DOMAIN available_columns :
                     Lower(available_columns[i]) = Lower(n)})
    IN Named(Strip(name))

\* _find_column: the first column equal to the name, ignoring case
RECURSIVE _find_column(_, _)
_find_column(name, available_columns) ==
    LET Match(col, n) ==
            IF Lower(col) = Lower(n) \/ col = n
            THEN Some(col)
            ELSE _find_column(name, Tail(available_columns))
    IN IF available_columns = << >> THEN None
       ELSE Match(Head(available_columns), Strip(name))

\* _parse_value: a column name, a number or a string
_parse_value(value_str, available_columns) ==
    LET Number(f) == NormFloat(f.m, f.d)
        Value(v, col) ==
            IF Truthy(col) THEN VStr(col.v)
            ELSE IF Contains(<<".">>, v)
                 THEN (IF IsFloatLiteral(v) THEN Number(ParseFloat(v)) ELSE VStr(v))
                 ELSE (IF IsIntLiteral(v) THEN VInt(ParseInt(v)) ELSE VStr(v))
        Unquoted(v) == Value(v, _find_column(v, available_columns))
    IN Unquoted(StripSet(Strip(value_str), {"\"", "'"}))

\* _map_operator
_map_operator(op_str) ==
    IF op_str \in {GREATER_THAN, LESS_THAN, GREATER_EQUAL, LESS_EQUAL,
                   EQUAL, NOT_EQUAL}
    THEN op_str
    ELSE EQUAL

\* _identify_column_and_value: (column, value), column None when neither
\* side names a column
_identify_column_and_value(left, right, available_columns) ==
    LET Sides(left_col, right_col) ==
            IF Truthy(left_col)
            THEN [column |-> left_col,
                  value |-> _parse_value(right, available_columns)]
            ELSE IF Truthy(right_col)
            THEN [column |-> right_col,
                  value |-> _parse_value(left, available_columns)]
            ELSE [column |-> None, value |-> VStr(<< >>)]
    IN Sides(_find_column(left, available_columns),
             _find_column(right, available_columns))

\* the position of the quote that closes ["'](.+?)["'] opened at position q:
\* the first quote after at least one character, 0 when there is none
ClosingQuote(text, q) ==
    LET First(ks) == IF ks = {} THEN 0 ELSE CHOOSE k \in ks : \A j \in ks : k <= j
    IN First({k \in (q + 2)..Len(text) :
                /\ text[k] \in {"\"", "'"}
                /\ \A j \in (q + 1)..(k - 1) : text[j] # "\n"})

\* _parse_string_operation: re.match of
\*   (\w+)\s+(contains|starts_with|ends_with)\s+["'](.+?)["']
\* the operator of the condition is the caller's op_type
_parse_string_operation(condition_text, available_columns, op_type) ==
    LET Found(column, value) ==
            IF Truthy(column)
            THEN Some(Condition(column.v, op_type, VStr(value)))
            ELSE None
        Groups(text, p1, p2, p3, p4, close) ==
            IF /\ p1 > 1
               /\ p2 > p1
               /\ p3 > p2
               /\ p4 > p3
               /\ p4 <= Len(text)
               /\ text[p4] \in {"\"", "'"}
               /\ close > 0
            THEN Found(_find_column(Slice(text, 1, p1 - 1), available_columns),
                       Slice(text, p4 + 1, close - 1))
            ELSE None
        Quote(text, p1, p2, p3, p4) ==
            Groups(text, p1, p2, p3, p4, ClosingQuote(text, p4))
        Keyword(text, p1, p2, p3) ==
            Quote(text, p1, p2, p3, SpaceRunEnd(text, p3))
        Spaces(text, low, p1, p2) ==
            Keyword(text, p1, p2,
                    p2 + (IF MatchAt(CONTAINS, low, p2) THEN Len(CONTAINS)
                          ELSE IF MatchAt(STARTS_WITH, low, p2) THEN Len(STARTS_WITH)
                          ELSE IF MatchAt(ENDS_WITH, low, p2) THEN Len(ENDS_WITH)
                          ELSE 0))
        Word(text, p1) == Spaces(text, Lower(text), p1, SpaceRunEnd(text, p1))
    IN Word(condition_text, WordRunEnd(condition_text, 1))

\* the operators of _parse_single_condition, in the order it tries them
operators == <<GREATER_EQUAL, LESS_EQUAL, NOT_EQUAL, GREATER_THAN, LESS_THAN, EQUAL>>

\* a variant of the loop of _parse_single_condition that returns None when
\* neither side of the split at the first operator found names a column
RECURSIVE ParseComparisonFirstOnly(_, _, _)
ParseComparisonFirstOnly(condition_text, available_columns, i) ==
    LET Found(op_str, cv) ==
            IF Truthy(cv.column)
            THEN Some(Condition(cv.column.v, _map_operator(op_str), cv.value))
            ELSE None
        Sides(op_str, parts) ==
            Found(op_str, _identify_column_and_value(Strip(parts[1]), Strip(parts[2]),
                                                     available_columns))
        Try(op_str) ==
            IF Contains(op_str, condition_text)
            THEN Sides(op_str, SplitOnce(condition_text, op_str))
            ELSE ParseComparisonFirstOnly(condition_text, available_columns, i + 1)
    IN IF i > Len(operators) THEN None ELSE Try(operators[i])

\* the loop of _parse_single_condition over operators[i..]
RECURSIVE ParseComparison(_, _, _)
ParseComparison(condition_text, available_columns, i) ==
    LET Found(op_str, cv) ==
            IF Truthy(cv.column)
            THEN Some(Condition(cv.column.v, _map_operator(op_str), cv.value))
            ELSE ParseComparison(condition_text, available_columns, i + 1)
        Sides(op_str, parts) ==
            Found(op_str, _identify_column_and_value(Strip(parts[1]), Strip(parts[2]),
                                                     available_columns))
        Try(op_str) ==
            IF Contains(op_str, condition_text)
            THEN Sides(op_str, SplitOnce(condition_text, op_str))
            ELSE ParseComparison(condition_text, available_columns, i + 1)
    IN IF i > Len(operators) THEN None ELSE Try(operators[i])

\* _parse_single_condition
_parse_single_condition(condition_text, available_columns) ==
    LET Dispatch(text, low) ==
            IF Contains(CONTAINS, low)
            THEN _parse_string_operation(text, available_columns, CONTAINS)
            ELSE IF Contains(STARTS_WITH, low)
            THEN _parse_string_operation(text, available_columns, STARTS_WITH)
            ELSE IF Contains(ENDS_WITH, low)
            THEN _parse_string_operation(text, available_columns, ENDS_WITH)
            ELSE ParseComparison(text, available_columns, 1)
        Stripped(text) == Dispatch(text, Lower(text))
    IN Stripped(Strip(condition_text))

\* the words AND and OR, in capitals
AND_WORD == <<"A", "N", "D">>

OR_WORD == <<"O", "R">>

\* re \bWORD\b with IGNORECASE matches at position p of s; up is s.upper()
WordMatchAt(word, up, p) ==
    /\ MatchAt(word, up, p)
    /\ (p = 1 \/ ~IsWordChar(up[p - 1]))
    /\ (p + Len(word) > Len(up) \/ ~IsWordChar(up[p + Len(word)]))

\* a variant of all_ops that finds the AND words only
RECURSIVE LogicalOpsAndOnly(_, _)
LogicalOpsAndOnly(up, p) ==
    IF p > Len(up) THEN << >>
    ELSE (IF WordMatchAt(AND_WORD, up, p) THEN <<AND>> ELSE << >>)
         \o LogicalOpsAndOnly(up, p + 1)

\* all_ops of _parse_expression in sorted order, from position p on: the
\* LogicalOperator of every \bAND\b and \bOR\b match; up is the expression
\* in capitals
RECURSIVE LogicalOpsFrom(_, _)
LogicalOpsFrom(up, p) ==
    IF p > Len(up) THEN << >>
    ELSE (IF WordMatchAt(AND_WORD, up, p) THEN <<AND>>
          ELSE IF WordMatchAt(OR_WORD, up, p) THEN <<OR>>
          ELSE << >>)
         \o LogicalOpsFrom(up, p + 1)

\* the length of the match of \s+(AND|OR)\s+ with IGNORECASE at position p
\* of s, 0 when it does not match there; up is s.upper()
SeparatorLenAt(s, up, p) ==
    LET Ends(q, w, e) == IF q > p /\ w > 0 /\ e > q + w THEN e - p ELSE 0
        Word(q, w) == Ends(q, w, SpaceRunEnd(s, q + w))
        Spaces(q) == Word(q, IF MatchAt(AND_WORD, up, q) THEN Len(AND_WORD)
                             ELSE IF MatchAt(OR_WORD, up, q) THEN Len(OR_WORD)
                             ELSE 0)
    IN Spaces(SpaceRunEnd(s, p))

\* the operator word inside the separator matched at position p
SeparatorWordAt(s, up, p) ==
    LET Word(q) == IF MatchAt(AND_WORD, up, q)
                   THEN Slice(s, q, q + Len(AND_WORD) - 1)
                   ELSE Slice(s, q, q + Len(OR_WORD) - 1)
    IN Word(SpaceRunEnd(s, p))

\* re.split on the separators: the piece that starts at position start, scanned
\* from position p, and the pieces after it; withOps keeps the captured
\* operator words between the pieces (the pattern with a group); up is
\* s.upper()
RECURSIVE ReSplitFrom(_, _, _, _, _)
ReSplitFrom(s, up, start, p, withOps) ==
    LET Piece(n) ==
            IF n > 0
            THEN <<Slice(s, start, p - 1)>>
                 \o (IF withOps THEN <<SeparatorWordAt(s, up, p)>> ELSE << >>)
                 \o ReSplitFrom(s, up, p + n, p + n, withOps)
            ELSE ReSplitFrom(s, up, start, p + 1, withOps)
    IN IF p > Len(s) THEN <<Slice(s, start, Len(s))>>
       ELSE Piece(SeparatorLenAt(s, up, p))

\* re.split(r'\s+AND\s+|\s+OR\s+', expression, flags=re.IGNORECASE)
SplitConditionParts(expression) ==
    ReSplitFrom(expression, Upper(expression), 1, 1, FALSE)

\* re.split(r'\s+(AND|OR)\s+', expression, flags=re.IGNORECASE)
SplitReferenceParts(expression) ==
    ReSplitFrom(expression, Upper(expression), 1, 1, TRUE)

\* a variant of the loop of _parse_expression that stops at the first part
\* that does not parse
RECURSIVE ParsePartsUntilFailure(_, _)
ParsePartsUntilFailure(condition_parts, available_columns) ==
    LET Parsed(condition) ==
            IF condition.some
            THEN <<condition.v>>
                 \o ParsePartsUntilFailure(Tail(condition_parts), available_columns)
            ELSE << >>
        Part(part) ==
            Parsed(IF part # << >>
                   THEN _parse_single_condition(part, available_columns)
                   ELSE None)
    IN IF condition_parts = << >> THEN << >>
       ELSE Part(StripSet(Strip(Head(condition_parts)), {"(", ")"}))

\* the loop of _parse_expression over condition_parts: the conditions of the
\* parts that parse, in order
RECURSIVE ParseParts(_, _)
ParseParts(condition_parts, available_columns) ==
    LET Parsed(condition) ==
            (IF condition.some THEN <<condition.v>> ELSE << >>)
            \o ParseParts(Tail(condition_parts), available_columns)
        Part(part) ==
            Parsed(IF part # << >>
                   THEN _parse_single_condition(part, available_columns)
                   ELSE None)
    IN IF condition_parts = << >> THEN << >>
       ELSE Part(StripSet(Strip(Head(condition_parts)), {"(", ")"}))

\* the action of a condition rule
VALIDATION_OK == <<"v","a","l","i","d","a","t","i","o","n"," ","o","k">>

\* _parse_expression: (conditions, logical_ops, action)
_parse_expression(expression, available_columns) ==
    [conditions  |-> ParseParts(SplitConditionParts(expression), available_columns),
     logical_ops |-> LogicalOpsFrom(Upper(expression), 1),
     action      |-> VALIDATION_OK]

RULE_WORD == <<"R", "U", "L", "E">>

\* re.match(r'Rule(\d+)', s, re.IGNORECASE) at position p: the position after
\* the match, 0 when there is no match
RuleNameEnd(s, p) ==
    LET Digits(e) ==
            IF MatchAt(RULE_WORD, Upper(s), p) /\ e > p + Len(RULE_WORD) THEN e ELSE 0
    IN Digits(DigitRunEnd(s, p + Len(RULE_WORD)))

\* _is_rule_reference_expression: ^Rule\d+\s+(AND|OR)\s+Rule\d+
_is_rule_reference_expression(expression) ==
    LET Second(e1, n) == n > 0 /\ RuleNameEnd(expression, e1 + n) > 0
        First(e1) ==
            /\ e1 > 0
            /\ Second(e1, SeparatorLenAt(expression, Upper(expression), e1))
    IN First(RuleNameEnd(expression, 1))

\* the loop of _parse_rule_references over parts: the operators
RECURSIVE ReferenceOps(_)
ReferenceOps(parts) ==
    LET Op(part) ==
            (IF part = AND_WORD THEN <<AND>>
             ELSE IF part = OR_WORD THEN <<OR>>
             ELSE << >>)
            \o ReferenceOps(Tail(parts))
    IN IF parts = << >> THEN << >> ELSE Op(Upper(Strip(Head(parts))))

\* the loop of _parse_rule_references over parts: the references
RECURSIVE ReferenceRefs(_)
ReferenceRefs(parts) ==
    LET Ref(part, up) ==
            (IF up \notin {AND_WORD, OR_WORD} /\ part # << >>
                /\ RuleNameEnd(part, 1) > 0
             THEN <<RuleReference(part)>>
             ELSE << >>)
            \o ReferenceRefs(Tail(parts))
        Part(part) == Ref(part, Upper(part))
    IN IF parts = << >> THEN << >> ELSE Part(Strip(Head(parts)))

VALIDATION_SUFFIX == <<" ","v","a","l","i","d","a","t","i","o","n">>

\* _parse_rule_references: the reference rule the call builds
_parse_rule_references(expression, rule_name) ==
    LET References(parts) ==
            Rule(rule_name, << >>, ReferenceOps(parts),
                 rule_name \o VALIDATION_SUFFIX, expression, ReferenceRefs(parts))
    IN References(SplitReferenceParts(expression))

RULE_PREFIX == <<"r", "u", "l", "e", "_">>

\* _generate_rule_name, with n_rules = len(self.rules)
_generate_rule_name(expression, n_rules) ==
    LET Name(name) ==
            IF name # << >> THEN name ELSE RULE_PREFIX \o IntToStr(n_rules + 1)
    IN Name(Join(<<"_">>,
                 SplitWhitespace(Slice(RemovePunctuation(expression), 1, 30))))

\* parse_rule: the Rule the call builds, appends to rules, stores in
\* rules_by_name and returns; rule_name is an Optional
BuildRule(expression, available_columns, rule_name, n_rules) ==
    LET Conditions(expr, name, parsed) ==
            Rule(name, parsed.conditions, parsed.logical_ops, parsed.action,
                 expr, << >>)
        Named(expr, name) ==
            IF _is_rule_reference_expression(expr)
            THEN _parse_rule_references(expr, name)
            ELSE Conditions(expr, name, _parse_expression(expr, available_columns))
        Stripped(expr) ==
            Named(expr, IF Truthy(rule_name) THEN rule_name.v
                        ELSE _generate_rule_name(expr, n_rules))
    IN Stripped(Strip(expression))

(***************************************************************************)
(* rule_engine.py: RuleEngine                                              *)
(***************************************************************************)

LITERAL_PREFIX == <<"_","_","L","I","T","E","R","A","L","_","_">>

\* a variant of the comparison value that never reads the row: the value of
\* the condition is compared as it was parsed
ComparisonValueAsParsed(row, value) ==
    IF IsStr(value) /\ StartsWith(value.s, LITERAL_PREFIX)
    THEN VStr(Slice(value.s, Len(LITERAL_PREFIX) + 1, Len(value.s)))
    ELSE value

\* the comparison value of _evaluate_condition: the text after the literal
\* marker, the row's value of the column the value names, or the value
ComparisonValue(row, value) ==
    IF IsStr(value) /\ StartsWith(value.s, LITERAL_PREFIX)
    THEN VStr(Slice(value.s, Len(LITERAL_PREFIX) + 1, Len(value.s)))
    ELSE IF IsStr(value) /\ value.s \in DOMAIN row
    THEN row[value.s]
    ELSE value

\* the exceptions the handlers of _evaluate_condition catch
Caught == {"ValueError", "TypeError"}

\* what a block of _evaluate_condition gives: a result, or an exception
Returns(b) == [exc |-> "none", val |-> b]

Raises(e) == [exc |-> e, val |-> FALSE]

\* float(cell_value) <op> float(comparison_value) inside the outer try, for
\* the operators >, <, >=, <=
NumericCompare(op, cell_value, comparison_value) ==
    LET Compare(a, b) ==
            IF a.exc # "none"
            THEN (IF a.exc \in Caught THEN Returns(FALSE) ELSE Raises(a.exc))
            ELSE IF b.exc # "none"
            THEN (IF b.exc \in Caught THEN Returns(FALSE) ELSE Raises(b.exc))
            ELSE Returns(CASE op = GREATER_THAN  -> FloatLess(b, a)
                           [] op = LESS_THAN     -> FloatLess(a, b)
                           [] op = GREATER_EQUAL -> ~FloatLess(a, b)
                           [] op = LESS_EQUAL    -> ~FloatLess(b, a))
    IN Compare(ToFloat(cell_value), ToFloat(comparison_value))

\* str(x).strip().upper() == str(y).strip().upper()
StringEqual(x, y) ==
    LET Same(a, b) == Upper(Strip(a)) = Upper(Strip(b))
    IN Same(Str(x), Str(y))

\* a variant of the EQUAL and NOT_EQUAL branches in which the handler of
\* NOT_EQUAL is a copy of the handler of EQUAL: it compares the strings
\* with ==
EqualityCompareCopiedHandler(op, cell_value, comparison_value) ==
    LET Strings(same) == Returns(same)
        Compare(a, b, exc) ==
            IF exc = "none"
            THEN Returns(IF op = EQUAL THEN FloatEq(a, b) ELSE ~FloatEq(a, b))
            ELSE IF exc \in Caught
            THEN Strings(StringEqual(cell_value, comparison_value))
            ELSE Raises(exc)
        Floats(a, b) == Compare(a, b, IF a.exc # "none" THEN a.exc ELSE b.exc)
    IN Floats(ToFloat(cell_value), ToFloat(comparison_value))

\* the EQUAL and NOT_EQUAL branches: the numeric comparison in the inner try,
\* the string comparison in its handler
EqualityCompare(op, cell_value, comparison_value) ==
    LET Strings(same) == Returns(IF op = EQUAL THEN same ELSE ~same)
        Compare(a, b, exc) ==
            IF exc = "none"
            THEN Returns(IF op = EQUAL THEN FloatEq(a, b) ELSE ~FloatEq(a, b))
            ELSE IF exc \in Caught
            THEN Strings(StringEqual(cell_value, comparison_value))
            ELSE Raises(exc)
        Floats(a, b) == Compare(a, b, IF a.exc # "none" THEN a.exc ELSE b.exc)
    IN Floats(ToFloat(cell_value), ToFloat(comparison_value))

\* a variant of the CONTAINS, STARTS_WITH and ENDS_WITH branches that
\* compares the strings as they are, without lower()
StringCompareCaseSensitive(op, cell_value, comparison_value) ==
    LET Compare(c, v) ==
            Returns(CASE op = CONTAINS    -> Contains(v, c)
                      [] op = STARTS_WITH -> StartsWith(c, v)
                      [] op = ENDS_WITH   -> EndsWith(c, v))
    IN Compare(Str(cell_value), Str(comparison_value))

\* the CONTAINS, STARTS_WITH and ENDS_WITH branches
StringCompare(op, cell_value, comparison_value) ==
    LET Compare(c, v) ==
            Returns(CASE op = CONTAINS    -> Contains(v, c)
                      [] op = STARTS_WITH -> StartsWith(c, v)
                      [] op = ENDS_WITH   -> EndsWith(c, v))
    IN Compare(Lower(Str(cell_value)), Lower(Str(comparison_value)))

\* the comparison of _evaluate_condition for an operator and the two values
CompareValues(op, cell_value, comparison_value) ==
    IF op \in {GREATER_THAN, LESS_THAN, GREATER_EQUAL, LESS_EQUAL}
    THEN NumericCompare(op, cell_value, comparison_value)
    ELSE IF op \in {EQUAL, NOT_EQUAL}
    THEN EqualityCompare(op, cell_value, comparison_value)
    ELSE IF op \in {CONTAINS, STARTS_WITH, ENDS_WITH}
    THEN StringCompare(op, cell_value, comparison_value)
    ELSE Returns(FALSE)

\* _evaluate_condition: the boolean it returns, or the exception it raises
_evaluate_condition(row, condition) ==
    IF condition.column \notin DOMAIN row THEN Returns(FALSE)
    ELSE CompareValues(condition.operator, row[condition.column],
                       ComparisonValue(row, condition.value))

\* a variant of _combine_conditions in which AND binds tighter than OR: true
\* when the results of some run of conditions joined by AND are all true
CombineWithPrecedence(condition_results, logical_ops) ==
    LET Groups(m) ==
            \E a \in 1..(m + 1) :
                /\ a = 1 \/ logical_ops[a - 1] = OR
                /\ \A b \in a..(m + 1) :
                      (\A i \in a..(b - 1) : logical_ops[i] = AND)
                          => condition_results[b]
    IN IF condition_results = << >> THEN FALSE
       ELSE Groups(IF Len(logical_ops) < Len(condition_results) - 1
                   THEN Len(logical_ops)
                   ELSE Len(condition_results) - 1)

\* the loop of _combine_conditions from operator i on, with the result so far
RECURSIVE CombineFrom(_, _, _, _)
CombineFrom(result, condition_results, logical_ops, i) ==
    IF i > Len(logical_ops) THEN result
    ELSE CombineFrom(
           IF i + 1 <= Len(condition_results)
           THEN (IF logical_ops[i] = AND THEN result /\ condition_results[i + 1]
                 ELSE IF logical_ops[i] = OR THEN result \/ condition_results[i + 1]
                 ELSE result)
           ELSE result,
           condition_results, logical_ops, i + 1)

\* _combine_conditions
_combine_conditions(condition_results, logical_ops) ==
    IF condition_results = << >> THEN FALSE
    ELSE IF Len(condition_results) = 1 THEN condition_results[1]
    ELSE CombineFrom(condition_results[1], condition_results, logical_ops, 1)

\* _evaluate_rule_references
_evaluate_rule_references(row, index, rule) == TRUE

\* the loop of _apply_rule_to_row over rule.conditions: the condition results
\* up to the first exception, and that exception
RECURSIVE EvaluateConditions(_, _)
EvaluateConditions(row, conditions) ==
    LET Rest(r, rest) == [exc |-> rest.exc, vals |-> <<r.val>> \o rest.vals]
        First(r) ==
            IF r.exc # "none" THEN [exc |-> r.exc, vals |-> << >>]
            ELSE Rest(r, EvaluateConditions(row, Tail(conditions)))
    IN IF conditions = << >> THEN [exc |-> "none", vals |-> << >>]
       ELSE First(_evaluate_condition(row, Head(conditions)))

ROW_WORD == <<"R", "o", "w", " ">>

COLON == <<":", " ">>

RULE_QUOTE == <<"R", "u", "l", "e", " ", "'">>

NOT_SATISFIED == <<"'"," ","n","o","t"," ","s","a","t","i","s","f","i","e","d">>

\* ValidationResult(row_index, rule_name, passed, message, row_data)
ValidationResult(row_index, rule_name, passed, message, row_data) ==
    [row_index |-> row_index, rule_name |-> rule_name, passed |-> passed,
     message |-> message, row_data |-> row_data]

\* _apply_rule_to_row: the ValidationResult, or the exception raised
_apply_rule_to_row(row, index, rule) ==
    LET Result(final_result, message) ==
            [exc |-> "none",
             result |-> ValidationResult(index, rule.name, final_result,
                                         message, row)]
        Message(final_result, where) ==
            Result(final_result,
                   IF final_result
                   THEN where \o rule.action
                   ELSE where \o RULE_QUOTE \o rule.name \o NOT_SATISFIED)
        Conditions(conds) ==
            IF rule.rule_references = << >> /\ conds.exc # "none"
            THEN [exc |-> conds.exc]
            ELSE Message(IF rule.rule_references # << >>
                         THEN _evaluate_rule_references(row, index, rule)
                         ELSE _combine_conditions(conds.vals, rule.logical_ops),
                         ROW_WORD \o IntToStr(index) \o COLON)
    IN Conditions(EvaluateConditions(row, rule.conditions))

\* a variant of the loops of validate with the loop over the rules outside and
\* the loop over the rows inside
RECURSIVE ValidateRuleMajor(_, _, _, _)
ValidateRuleMajor(data, rules, i, j) ==
    LET Rest(r, rest) ==
            [exc |-> rest.exc, results |-> <<r.result>> \o rest.results]
        Applied(r) ==
            IF r.exc # "none" THEN [exc |-> r.exc, results |-> << >>]
            ELSE Rest(r, ValidateRuleMajor(data, rules, i + 1, j))
    IN IF j > Len(rules) THEN [exc |-> "none", results |-> << >>]
       ELSE IF i > Len(data) THEN ValidateRuleMajor(data, rules, 1, j + 1)
       ELSE Applied(_apply_rule_to_row(data[i], i - 1, rules[j]))

\* the loops of validate: over the rows of data from row i on and, inside,
\* over rules from rule j on; the results appended until an exception
RECURSIVE ValidateFrom(_, _, _, _)
ValidateFrom(data, rules, i, j) ==
    LET Rest(r, rest) ==
            [exc |-> rest.exc, results |-> <<r.result>> \o rest.results]
        Applied(r) ==
            IF r.exc # "none" THEN [exc |-> r.exc, results |-> << >>]
            ELSE Rest(r, ValidateFrom(data, rules, i, j + 1))
    IN IF i > Len(data) THEN [exc |-> "none", results |-> << >>]
       ELSE IF j > Len(rules) THEN ValidateFrom(data, rules, i + 1, 1)
       ELSE Applied(_apply_rule_to_row(data[i], i - 1, rules[j]))

\* get_failed_validations
get_failed_validations(results) == SelectSeq(results, LAMBDA r : ~r.passed)

\* get_passed_validations
get_passed_validations(results) == SelectSeq(results, LAMBDA r : r.passed)

\* the detail lines of generate_report for the failed results
RECURSIVE FailedLines(_)
FailedLines(failed) ==
    LET Lines(result) ==
            <<[line |-> "message", text |-> result.message],
              [line |-> "Rule: ", text |-> result.rule_name],
              [line |-> "Row data: ", data |-> result.row_data]>>
            \o FailedLines(Tail(failed))
    IN IF failed = << >> THEN << >> ELSE Lines(Head(failed))

\* generate_report: the lines of the report, each with its fixed text and the
\* value formatted into it
generate_report(results) ==
    LET Report(passed, failed) ==
            <<[line |-> "=" ],
              [line |-> "VALIDATION REPORT"],
              [line |-> "="],
              [line |-> "Total validations: ", n |-> Len(results)],
              [line |-> "Passed: ", n |-> Len(passed)],
              [line |-> "Failed: ", n |-> Len(failed)],
              [line |-> "="]>>
            \o (IF failed # << >>
                THEN <<[line |-> "FAILED VALIDATIONS:"], [line |-> "-"]>>
                     \o FailedLines(failed)
                ELSE << >>)
    IN Report(get_passed_validations(results), get_failed_validations(results))

(***************************************************************************)
(* The inputs of the model                                                 *)
(***************************************************************************)

\* the longest rules list a parser holds, and the most rows a table has
MaxRules == 2

MaxRows == 2

colA == <<"A">>

colB == <<"B">>

colStatus == <<"S","t","a","t","u","s">>

colActive == <<"A","c","t","i","v","e">>

ColumnsAB == <<colA, colB>>

ColumnsStatus == <<colStatus, colActive>>

nameRule1 == <<"R","u","l","e","1">>

nameRule2 == <<"R","u","l","e","2">>

\* A>B AND B<10: two conditions joined by one AND
exprTwoConditions == <<"A",">","B"," ","A","N","D"," ","B","<","1","0">>

\* the calls parse_rule(expression, available_columns, rule_name) of the model
ParseInputs ==
    { \* A>5, B<10 and A=B, the last under the name of the first
      [expression |-> <<"A",">","5">>, columns |-> ColumnsAB, rule_name |-> Some(nameRule1)],
      [expression |-> <<"B","<","1","0">>, columns |-> ColumnsAB, rule_name |-> Some(nameRule2)],
      [expression |-> <<"A","=","B">>, columns |-> ColumnsAB, rule_name |-> Some(nameRule1)],
      \* A>B
      [expression |-> <<"A",">","B">>, columns |-> ColumnsAB, rule_name |-> None],
      \* Rule1 AND Rule2
      [expression |-> <<"R","u","l","e","1"," ","A","N","D"," ","R","u","l","e","2">>,
       columns |-> ColumnsAB, rule_name |-> None],
      \* Status="Active" and Status=Active
      [expression |-> <<"S","t","a","t","u","s","=","\"","A","c","t","i","v","e","\"">>,
       columns |-> ColumnsStatus, rule_name |-> None],
      [expression |-> <<"S","t","a","t","u","s","=","A","c","t","i","v","e">>,
       columns |-> ColumnsStatus, rule_name |-> None],
      \* Z>5: no segment names a column
      [expression |-> <<"Z",">","5">>, columns |-> ColumnsAB, rule_name |-> None],
      \* A>5 AND Z<3: the second segment names no column
      [expression |-> <<"A",">","5"," ","A","N","D"," ","Z","<","3">>,
       columns |-> ColumnsAB, rule_name |-> None],
      \* A>B AND B<10
      [expression |-> exprTwoConditions, columns |-> ColumnsAB, rule_name |-> None],
      \* A=OR AND B<10: the word OR is the value of the first segment
      [expression |-> <<"A","=","O","R"," ","A","N","D"," ","B","<","1","0">>,
       columns |-> ColumnsAB, rule_name |-> None],
      \* A>5 OR B>5 AND A=B
      [expression |-> <<"A",">","5"," ","O","R"," ","B",">","5"," ","A","N","D"," ","A","=","B">>,
       columns |-> ColumnsAB, rule_name |-> None] }

\* a row: a mapping from column names to values
Row2(c1, v1, c2, v2) == [c \in {c1, c2} |-> IF c = c1 THEN v1 ELSE v2]

Row1(c1, v1) == [c \in {c1} |-> v1]

strActive == VStr(<<"A","c","t","i","v","e">>)

strNo == VStr(<<"N","o">>)

strAbc == VStr(<<"a","b","c">>)

\* the tables of the model, before they are cut to MaxRows rows
BaseTables ==
    { << >>,
      <<Row2(colA, VInt(6), colB, VInt(3)), Row2(colA, VInt(2), colB, VInt(2)),
        Row2(colA, VInt(7), colB, VInt(12))>>,
      <<Row2(colStatus, strActive, colActive, strNo),
        Row2(colStatus, strNo, colActive, strNo),
        Row2(colStatus, strActive, colActive, strActive)>>,
      <<Row1(colA, strAbc), Row1(colA, VInt(7)), Row1(colA, VStr(<<"9">>))>>,
      <<Row2(colA, VInt(6), colB, VInt(3)), Row2(colA, VHuge, colB, VInt(1)),
        Row2(colA, VInt(1), colB, VHuge)>> }

Tables == {Slice(tb, 1, MaxRows) : tb \in BaseTables}

(***************************************************************************)
(* The state machine: one RuleParser and one RuleEngine                    *)
(***************************************************************************)

VARIABLES
    rules,          \* RuleParser.rules
    rules_by_name,  \* RuleParser.rules_by_name
    results,        \* RuleEngine.results
    ret,            \* the last call: its name, the exception it raised and,
                    \* of a parse_rule call, its arguments; parse_rule returns
                    \* the rule it appended to rules, validate returns
                    \* self.results
    call,           \* the last validate call: its arguments, the exception
                    \* it raised and whether self.results held results when it
                    \* was made
    input,          \* the arguments of a function called on its own
    output,         \* what that function returned, None before it is called
    app_rules,      \* ExcelRuleValidationApp.rules
    rule_enabled,   \* for each rule of ExcelRuleValidationApp.rules, what
                    \* getattr(rule, 'enabled', True) gives: the attribute
                    \* enabled of the rule, TRUE while it has none
    file            \* the JSON file of save_rules and load_rules: None when
                    \* there is no file, or the list of records it holds

vars == <<rules, rules_by_name, results, ret, call, input, output, app_rules, file, rule_enabled>>

Init ==
    /\ rules = << >>
    /\ rules_by_name = << >>
    /\ results = << >>
    /\ ret = [op |-> "none", exc |-> "none", args |-> << >>]
    /\ call = [data |-> << >>, rules |-> << >>, exc |-> "none", replaced |-> FALSE]
    /\ input = None
    /\ output = None
    /\ app_rules = << >>
    /\ rule_enabled = << >>
    /\ file = None

\* self.rules_by_name[rule_name] = rule
SetItem(dict, key, value) ==
    [k \in DOMAIN dict \cup {key} |-> IF k = key THEN value ELSE dict[k]]

\* parse_rule(expression, available_columns, rule_name)
ParseRule(expression, available_columns, rule_name) ==
    LET Store(rule) ==
            /\ rules' = Append(rules, rule)
            /\ rules_by_name' = SetItem(rules_by_name, rule.name, rule)
            /\ ret' = [op |-> "parse_rule", exc |-> "none",
                       args |-> [expression |-> expression,
                                 available_columns |-> available_columns,
                                 rule_name |-> rule_name]]
            /\ UNCHANGED <<results, call, input, output, app_rules, file, rule_enabled>>
    IN /\ Len(rules) < MaxRules
       /\ Store(BuildRule(expression, available_columns, rule_name, Len(rules)))

\* a variant of validate that keeps the results of an earlier call, as a
\* cache of results would
ValidateCached(data, rule_list) ==
    LET Return(out) ==
            /\ results' = (IF results # << >> THEN results ELSE out.results)
            /\ ret' = [op |-> "validate", exc |-> out.exc, args |-> << >>]
            /\ call' = [data |-> data, rules |-> rule_list, exc |-> out.exc,
                        replaced |-> results # << >>]
            /\ UNCHANGED <<rules, rules_by_name, input, output, app_rules, file, rule_enabled>>
    IN Return(ValidateFrom(data, rule_list, 1, 1))

\* a variant of validate that appends to the results self.results holds
ValidateAppending(data, rule_list) ==
    LET Return(out) ==
            /\ results' = results \o out.results
            /\ ret' = [op |-> "validate", exc |-> out.exc, args |-> << >>]
            /\ call' = [data |-> data, rules |-> rule_list, exc |-> out.exc,
                        replaced |-> results # << >>]
            /\ UNCHANGED <<rules, rules_by_name, input, output, app_rules, file, rule_enabled>>
    IN Return(ValidateFrom(data, rule_list, 1, 1))

\* validate(data, rules): self.results is emptied, then holds the results
\* appended until the call returns it or raises
Validate(data, rule_list) ==
    LET Return(out) ==
            /\ results' = out.results
            /\ ret' = [op |-> "validate", exc |-> out.exc, args |-> << >>]
            /\ call' = [data |-> data, rules |-> rule_list, exc |-> out.exc,
                        replaced |-> results # << >>]
            /\ UNCHANGED <<rules, rules_by_name, input, output, app_rules, file, rule_enabled>>
    IN Return(ValidateFrom(data, rule_list, 1, 1))

\* the parser is given expressions; the engine is given a table and the rules
\* the parser returned so far
Next ==
    \/ \E in \in ParseInputs : ParseRule(in.expression, in.columns, in.rule_name)
    \/ \E data \in Tables : Validate(data, rules)

Spec == Init /\ [][Next]_vars

(***************************************************************************)
(* _combine_conditions called on its own, with every list of up to         *)
(* MaxConds condition results and every list of up to MaxConds operators   *)
(***************************************************************************)

MaxConds == 3

CondResults == UNION {[1..n -> BOOLEAN] : n \in 0..MaxConds}

OpLists == UNION {[1..n -> {AND, OR}] : n \in 0..MaxConds}

InitCombine ==
    /\ rules = << >>
    /\ rules_by_name = << >>
    /\ results = << >>
    /\ ret = [op |-> "none", exc |-> "none", args |-> << >>]
    /\ call = [data |-> << >>, rules |-> << >>, exc |-> "none", replaced |-> FALSE]
    /\ input \in {Some([condition_results |-> cr, logical_ops |-> ops]) :
                    cr \in CondResults, ops \in OpLists}
    /\ output = None
    /\ app_rules = << >>
    /\ rule_enabled = << >>
    /\ file = None

\* _combine_conditions(condition_results, logical_ops)
CombineConditions ==
    /\ output' = Some(_combine_conditions(input.v.condition_results,
                                          input.v.logical_ops))
    /\ UNCHANGED <<rules, rules_by_name, results, ret, call, input,
                    app_rules, file, rule_enabled>>

NextCombine == CombineConditions

SpecCombine == InitCombine /\ [][NextCombine]_vars

(***************************************************************************)
(* The parser on its own: parse_rule called with reference expressions,    *)
(* with the kinds of value a comparison can hold and with each comparison  *)
(* operator                                                                *)
(***************************************************************************)

\* the calls parse_rule(expression, available_columns, rule_name)
ParserInputs ==
    { \* Rule5 OR Rule6
      [expression |-> <<"R","u","l","e","5"," ","O","R"," ","R","u","l","e","6">>,
       columns |-> ColumnsAB, rule_name |-> Some(<<"P","a","r","t","i","a","l","T","e","s","t">>)],
      \* rule1 and Rule2  OR  rule3x: small letters, two spaces, a longer third segment
      [expression |-> <<"r","u","l","e","1"," ","a","n","d"," ","R","u","l","e","2"," "," ","O","R"," "," ","r","u","l","e","3","x">>,
       columns |-> ColumnsAB, rule_name |-> None],
      \* Rule1 AND Rule2 AND OR AND Rule3: the third segment is the word OR
      [expression |-> <<"R","u","l","e","1"," ","A","N","D"," ","R","u","l","e","2"," ","A","N","D"," ","O","R"," ","A","N","D"," ","R","u","l","e","3">>,
       columns |-> ColumnsAB, rule_name |-> None],
      \* Rule1 OR Rule2 AND A>5: the third segment names no rule
      [expression |-> <<"R","u","l","e","1"," ","O","R"," ","R","u","l","e","2"," ","A","N","D"," ","A",">","5">>,
       columns |-> ColumnsAB, rule_name |-> None],
      \* Status="Active"
      [expression |-> <<"S","t","a","t","u","s","=","\"","A","c","t","i","v","e","\"">>,
       columns |-> <<<<"S","t","a","t","u","s">>, <<"A","c","t","i","v","e">>, <<"5">>>>, rule_name |-> None],
      \* Status=Active
      [expression |-> <<"S","t","a","t","u","s","=","A","c","t","i","v","e">>,
       columns |-> <<<<"S","t","a","t","u","s">>, <<"A","c","t","i","v","e">>, <<"5">>>>, rule_name |-> None],
      \* Status=active: the token differs from the column Active in case
      [expression |-> <<"S","t","a","t","u","s","=","a","c","t","i","v","e">>,
       columns |-> <<<<"S","t","a","t","u","s">>, <<"A","c","t","i","v","e">>, <<"5">>>>, rule_name |-> None],
      \* Status=5: the token names the column 5
      [expression |-> <<"S","t","a","t","u","s","=","5">>,
       columns |-> <<<<"S","t","a","t","u","s">>, <<"A","c","t","i","v","e">>, <<"5">>>>, rule_name |-> None],
      \* Status=7
      [expression |-> <<"S","t","a","t","u","s","=","7">>,
       columns |-> <<<<"S","t","a","t","u","s">>, <<"A","c","t","i","v","e">>, <<"5">>>>, rule_name |-> None],
      \* Status=2.50
      [expression |-> <<"S","t","a","t","u","s","=","2",".","5","0">>,
       columns |-> <<<<"S","t","a","t","u","s">>, <<"A","c","t","i","v","e">>, <<"5">>>>, rule_name |-> None],
      \* Status=YES
      [expression |-> <<"S","t","a","t","u","s","=","Y","E","S">>,
       columns |-> <<<<"S","t","a","t","u","s">>, <<"A","c","t","i","v","e">>, <<"5">>>>, rule_name |-> None],
      \* Status="7"
      [expression |-> <<"S","t","a","t","u","s","=","\"","7","\"">>,
       columns |-> <<<<"S","t","a","t","u","s">>, <<"A","c","t","i","v","e">>, <<"5">>>>, rule_name |-> None],
      \* A>=5
      [expression |-> <<"A",">","=","5">>,
       columns |-> ColumnsAB, rule_name |-> None],
      \* B<=10
      [expression |-> <<"B","<","=","1","0">>,
       columns |-> ColumnsAB, rule_name |-> None],
      \* A!=0
      [expression |-> <<"A","!","=","0">>,
       columns |-> ColumnsAB, rule_name |-> None],
      \* A>5
      [expression |-> <<"A",">","5">>,
       columns |-> ColumnsAB, rule_name |-> None],
      \* A<5
      [expression |-> <<"A","<","5">>,
       columns |-> ColumnsAB, rule_name |-> None],
      \* A=5
      [expression |-> <<"A","=","5">>,
       columns |-> ColumnsAB, rule_name |-> None],
      \* A=>5: neither side of the split at > names a column
      [expression |-> <<"A","=",">","5">>,
       columns |-> ColumnsAB, rule_name |-> None],
      \* Z>=5: no split names a column
      [expression |-> <<"Z",">","=","5">>,
       columns |-> ColumnsAB, rule_name |-> None],
      \* 5<=A: the right side names the column
      [expression |-> <<"5","<","=","A">>,
       columns |-> ColumnsAB, rule_name |-> None],
      \* A>B=5 with the one column A>B
      [expression |-> <<"A",">","B","=","5">>,
       columns |-> <<<<"A",">","B">>>>, rule_name |-> None] }

NextParser ==
    \E in \in ParserInputs : ParseRule(in.expression, in.columns, in.rule_name)

SpecParser == Init /\ [][NextParser]_vars

(***************************************************************************)
(* _evaluate_condition called on its own: up to MaxEvals calls on one row, *)
(* with one column and one value and any operator                          *)
(***************************************************************************)

MaxEvals == 2

\* the members of ConditionType
ConditionTypes ==
    {GREATER_THAN, LESS_THAN, GREATER_EQUAL, LESS_EQUAL, EQUAL, NOT_EQUAL,
     CONTAINS, STARTS_WITH, ENDS_WITH}

strYES == VStr(<<"Y","E","S">>)

\* the cells of column A: 5, 5.0, 2.5, '5', ' 5 ', '2.50', 'YES', ' yes ',
\* 'NO' and 10**400
EvalCells ==
    {VInt(5), VFloat(5, 0), VFloat(25, 1), VStr(<<"5">>),
     VStr(<<" ","5"," ">>), VStr(<<"2",".","5","0">>), strYES,
     VStr(<<" ","y","e","s"," ">>), VStr(<<"N","O">>), VHuge}

\* the calls _evaluate_condition(row, Condition(column, operator, value)) of
\* the model without their operator: rows with the columns A and B, the
\* column A, or Z which no row has, and the values 5, 2.5, 'YES' and the
\* name of the column B
EvalInputs ==
    {[row |-> Row2(colA, cell, colB, other), column |-> colA, value |-> value] :
        cell \in EvalCells, other \in {VStr(<<"y","e","s">>), VHuge},
        value \in {VInt(5), VFloat(25, 1), strYES, VStr(colB)}}
    \cup
    {[row |-> Row2(colA, VInt(5), colB, other), column |-> <<"Z">>, value |-> value] :
        other \in {VStr(<<"y","e","s">>), VHuge},
        value \in {VInt(5), VFloat(25, 1), strYES, VStr(colB)}}

\* output holds, in the order of the calls, the operator of each call and
\* what the call returned or raised
InitEvaluate ==
    /\ rules = << >>
    /\ rules_by_name = << >>
    /\ results = << >>
    /\ ret = [op |-> "none", exc |-> "none", args |-> << >>]
    /\ call = [data |-> << >>, rules |-> << >>, exc |-> "none", replaced |-> FALSE]
    /\ input \in {Some(in) : in \in EvalInputs}
    /\ output = << >>
    /\ app_rules = << >>
    /\ rule_enabled = << >>
    /\ file = None

\* _evaluate_condition(row, Condition(column, operator, value))
EvaluateCondition(operator) ==
    LET Return(outcome) ==
            /\ output' = Append(output, [operator |-> operator,
                                         exc |-> outcome.exc, val |-> outcome.val])
            /\ UNCHANGED <<rules, rules_by_name, results, ret, call, input,
                    app_rules, file, rule_enabled>>
    IN /\ Len(output) < MaxEvals
       /\ Return(_evaluate_condition(input.v.row,
                                     Condition(input.v.column, operator,
                                               input.v.value)))

NextEvaluate == \E operator \in ConditionTypes : EvaluateCondition(operator)

SpecEvaluate == InitEvaluate /\ [][NextEvaluate]_vars

(***************************************************************************)
(* The string operators: parse_rule called with contains, starts_with and  *)
(* ends_with expressions, validate called with the rules parsed so far     *)
(***************************************************************************)

colVoltage == <<"v","o","l","t","a","g","e">>

colCurrent == <<"c","u","r","r","e","n","t">>

\* the calls parse_rule(expression, available_columns, rule_name)
StringInputs ==
    { \* voltage contains "cc_r"
      [expression |-> <<"v","o","l","t","a","g","e"," ","c","o","n","t","a","i","n","s"," ","\"","c","c","_","r","\"">>,
       columns |-> <<colVoltage, colCurrent>>, rule_name |-> Some(<<"t","e","s","t","3">>)],
      \* voltage starts_with "CC_R"
      [expression |-> <<"v","o","l","t","a","g","e"," ","s","t","a","r","t","s","_","w","i","t","h"," ","\"","C","C","_","R","\"">>,
       columns |-> <<colVoltage, colCurrent>>, rule_name |-> None],
      \* voltage ends_with 'cc_r'
      [expression |-> <<"v","o","l","t","a","g","e"," ","e","n","d","s","_","w","i","t","h"," ","'","c","c","_","r","'">>,
       columns |-> <<colVoltage, colCurrent>>, rule_name |-> None],
      \* current contains "2": the cells of current are ints
      [expression |-> <<"c","u","r","r","e","n","t"," ","c","o","n","t","a","i","n","s"," ","\"","2","\"">>,
       columns |-> <<colVoltage, colCurrent>>, rule_name |-> None],
      \* A contains "B": the quoted text is the name of a column
      [expression |-> <<"A"," ","c","o","n","t","a","i","n","s"," ","\"","B","\"">>,
       columns |-> ColumnsAB, rule_name |-> None],
      \* A starts_with "B"
      [expression |-> <<"A"," ","s","t","a","r","t","s","_","w","i","t","h"," ","\"","B","\"">>,
       columns |-> ColumnsAB, rule_name |-> None],
      \* A ends_with "B"
      [expression |-> <<"A"," ","e","n","d","s","_","w","i","t","h"," ","\"","B","\"">>,
       columns |-> ColumnsAB, rule_name |-> None] }

\* the table of test_contains_operator, and a table whose column B holds
\* text that the cells of A contain where they do not contain the letter B
StringTables ==
    { <<Row2(colVoltage, VStr(<<"c","c","_","r","_","1","2","3">>), colCurrent, VInt(1)),
        Row2(colVoltage, VStr(<<"a","b","c">>), colCurrent, VInt(2)),
        Row2(colVoltage, VStr(<<"t","e","s","t","_","c","c","_","r">>), colCurrent, VInt(3)),
        Row2(colVoltage, VStr(<<"x","y","z">>), colCurrent, VInt(4))>>,
      <<Row2(colA, VStr(<<"x","B","y">>), colB, VStr(<<"z","z">>)),
        Row2(colA, VStr(<<"a","z","z">>), colB, VStr(<<"z","z">>)),
        Row2(colA, VStr(<<"B","c","d">>), colB, VStr(<<"b">>)),
        Row2(colA, VStr(<<"b">>), colB, VStr(<<"B","c","d">>))>> }

NextStrings ==
    \/ \E in \in StringInputs : ParseRule(in.expression, in.columns, in.rule_name)
    \/ \E data \in StringTables : Validate(data, rules)

SpecStrings == Init /\ [][NextStrings]_vars

(***************************************************************************)
(* The segments of a condition expression: parse_rule called with columns  *)
(* that differ in case only, with segments that do not parse, with the     *)
(* value on the left of the operator and with keywords inside a string     *)
(* operation; validate called with the rules parsed so far                 *)
(***************************************************************************)

\* the calls parse_rule(expression, available_columns, rule_name)
SegmentInputs ==
    { \* A>5 with the columns a and A: the first column equals the token ignoring case, the second exactly
      [expression |-> <<"A",">","5">>,
       columns |-> <<<<"a">>, <<"A">>>>, rule_name |-> None],
      \* a>5 with the columns A and a
      [expression |-> <<"a",">","5">>,
       columns |-> <<<<"A">>, <<"a">>>>, rule_name |-> None],
      \* Z>5: no column matches
      [expression |-> <<"Z",">","5">>,
       columns |-> <<<<"a">>, <<"A">>>>, rule_name |-> None],
      \* A>5 AND Z<3 AND B<10: the middle segment names no column
      [expression |-> <<"A",">","5"," ","A","N","D"," ","Z","<","3"," ","A","N","D"," ","B","<","1","0">>,
       columns |-> ColumnsAB, rule_name |-> None],
      \* A>5 AND B AND A contains B: a segment without an operator and a string operation without quotes
      [expression |-> <<"A",">","5"," ","A","N","D"," ","B"," ","A","N","D"," ","A"," ","c","o","n","t","a","i","n","s"," ","B">>,
       columns |-> ColumnsAB, rule_name |-> None],
      \* Z>1 OR B<10 AND A>5: the first segment names no column
      [expression |-> <<"Z",">","1"," ","O","R"," ","B","<","1","0"," ","A","N","D"," ","A",">","5">>,
       columns |-> ColumnsAB, rule_name |-> None],
      \* 5<A and 5>=A: the value is on the left
      [expression |-> <<"5","<","A">>,
       columns |-> ColumnsAB, rule_name |-> None],
      \* 5>=A
      [expression |-> <<"5",">","=","A">>,
       columns |-> ColumnsAB, rule_name |-> None],
      \* A<5
      [expression |-> <<"A","<","5">>,
       columns |-> ColumnsAB, rule_name |-> None],
      \* A starts_with "contains" and A ends_with "starts_with": the quoted text is a keyword
      [expression |-> <<"A"," ","s","t","a","r","t","s","_","w","i","t","h"," ","\"","c","o","n","t","a","i","n","s","\"">>,
       columns |-> ColumnsAB, rule_name |-> None],
      \* A ends_with "starts_with"
      [expression |-> <<"A"," ","e","n","d","s","_","w","i","t","h"," ","\"","s","t","a","r","t","s","_","w","i","t","h","\"">>,
       columns |-> ColumnsAB, rule_name |-> None],
      \* contains_x ends_with "a": the column name holds a keyword
      [expression |-> <<"c","o","n","t","a","i","n","s","_","x"," ","e","n","d","s","_","w","i","t","h"," ","\"","a","\"">>,
       columns |-> <<<<"c","o","n","t","a","i","n","s","_","x">>, <<"A">>>>, rule_name |-> None],
      \* A starts_with "b" and A ends_with "b"
      [expression |-> <<"A"," ","s","t","a","r","t","s","_","w","i","t","h"," ","\"","b","\"">>,
       columns |-> ColumnsAB, rule_name |-> None],
      \* A ends_with "b"
      [expression |-> <<"A"," ","e","n","d","s","_","w","i","t","h"," ","\"","b","\"">>,
       columns |-> ColumnsAB, rule_name |-> None] }

\* a table with the columns A and B, and one with the columns a and A
SegmentTables ==
    { <<Row2(colA, VInt(3), colB, VInt(1)), Row2(colA, VInt(7), colB, VInt(20)),
        Row2(colA, VInt(5), colB, VInt(5))>>,
      <<Row2(<<"a">>, VInt(9), colA, VInt(1)), Row2(<<"a">>, VInt(1), colA, VInt(9))>> }

NextSegments ==
    \/ \E in \in SegmentInputs : ParseRule(in.expression, in.columns, in.rule_name)
    \/ \E data \in SegmentTables : Validate(data, rules)

SpecSegments == Init /\ [][NextSegments]_vars

(***************************************************************************)
(* gui_app.py: ExcelRuleValidationApp with its list of rules, its parser   *)
(* and the rules file of save_rules and load_rules                         *)
(***************************************************************************)

\* Rule.to_dict(): the dataclass Rule has the fields name, conditions,
\* logical_ops, action, description and rule_references and the methods
\* __post_init__ and __str__, and no to_dict, so the call raises
\* AttributeError
to_dict(rule) == [exc |-> "AttributeError", val |-> << >>]

\* Rule.from_dict(rd): Rule has no from_dict either
from_dict(rd) == [exc |-> "AttributeError", val |-> << >>]

\* the persisted record of a rule: the fields name, conditions, logical_ops,
\* action, description, rule_references and enabled
RuleRecord(rule, enabled) ==
    [name |-> rule.name,
     conditions |-> [i \in DOMAIN rule.conditions |->
                        [column |-> rule.conditions[i].column,
                         operator |-> rule.conditions[i].operator,
                         value |-> rule.conditions[i].value]],
     logical_ops |-> rule.logical_ops,
     action |-> rule.action,
     description |-> rule.description,
     rule_references |-> [i \in DOMAIN rule.rule_references |->
                             rule.rule_references[i].rule_name],
     enabled |-> enabled]

\* the most rules the parser of the app holds: add_rule and edit_rule each add
\* one, and remove_rule takes none away
MaxParsed == 3

\* add_rule with the text of the entry and the columns of the loaded data:
\* the rule is parsed under the name Rule<n> and appended to the app's list
AddRule(rule_text, columns) ==
    LET Store(rule) ==
            /\ rules' = Append(rules, rule)
            /\ rules_by_name' = SetItem(rules_by_name, rule.name, rule)
            /\ app_rules' = Append(app_rules, rule)
            /\ rule_enabled' = Append(rule_enabled, TRUE)
            /\ ret' = [op |-> "add_rule", exc |-> "none", args |-> << >>]
            /\ UNCHANGED <<results, call, input, output, file>>
    IN /\ Len(app_rules) < MaxRules
       /\ Len(rules) < MaxParsed
       /\ Strip(rule_text) # << >>
       /\ Store(BuildRule(Strip(rule_text), columns,
                          Some(<<"R","u","l","e">> \o IntToStr(Len(app_rules) + 1)),
                          Len(rules)))

\* save_rules with rules in the list and a file name chosen: the records of
\* the rules are built, then written; an exception is caught, logged and
\* shown, and ret.exc holds it
SaveRules ==
    LET Written(outs, failed) ==
            IF failed # {}
            THEN /\ file' = file
                 /\ ret' = [op |-> "save_rules",
                            exc |-> outs[CHOOSE i \in failed :
                                            \A j \in failed : i <= j].exc,
                            args |-> << >>]
            ELSE /\ file' = Some([i \in DOMAIN outs |-> outs[i].val])
                 /\ ret' = [op |-> "save_rules", exc |-> "none", args |-> << >>]
        Records(outs) ==
            Written(outs, {i \in DOMAIN outs : outs[i].exc # "none"})
    IN /\ app_rules # << >>
       /\ Records([i \in DOMAIN app_rules |-> to_dict(app_rules[i])])
       /\ UNCHANGED <<rules, rules_by_name, results, call, input, output, app_rules,
                    rule_enabled>>

\* load_rules with a file chosen that holds a list; resp is the answer to
\* 'Replace existing rules?', yes when the list of the app is empty.  The
\* lists are cleared on yes, then each record is converted and appended to
\* the parser's list, its index and the app's list until a conversion
\* raises; the exception is caught, logged and shown
LoadRules(resp) ==
    LET Appended(loaded, exc) ==
            /\ app_rules' = (IF resp THEN << >> ELSE app_rules) \o loaded
            /\ rule_enabled' = (IF resp THEN << >> ELSE rule_enabled)
                                  \o [i \in DOMAIN loaded |-> TRUE]
            /\ rules' = (IF resp THEN << >> ELSE rules) \o loaded
            /\ rules_by_name' =
                  [name \in (IF resp THEN {} ELSE DOMAIN rules_by_name)
                            \cup {loaded[i].name : i \in DOMAIN loaded} |->
                      IF \E i \in DOMAIN loaded : loaded[i].name = name
                      THEN loaded[CHOOSE i \in DOMAIN loaded :
                                    /\ loaded[i].name = name
                                    /\ \A j \in DOMAIN loaded :
                                          loaded[j].name = name => j <= i]
                      ELSE rules_by_name[name]]
            /\ ret' = [op |-> "load_rules", exc |-> exc, args |-> << >>]
            /\ UNCHANGED <<results, call, input, output, file>>
        Converted(outs, n) ==
            Appended([i \in 1..n |-> outs[i].val],
                     IF n < Len(outs) THEN outs[n + 1].exc ELSE "none")
        Records(outs) ==
            Converted(outs, Cardinality({i \in DOMAIN outs :
                                            \A j \in 1..i : outs[j].exc = "none"}))
    IN /\ file.some
       /\ app_rules = << >> => resp
       /\ Records([i \in DOMAIN file.v |-> from_dict(file.v[i])])

\* the app starts with no rule; the file does not exist, holds the empty
\* list, or holds the records of the rule Rule1 of A>5 and of the disabled
\* rule Rule2 of B<10
InitPersist ==
    /\ rules = << >>
    /\ rules_by_name = << >>
    /\ results = << >>
    /\ ret = [op |-> "none", exc |-> "none", args |-> << >>]
    /\ call = [data |-> << >>, rules |-> << >>, exc |-> "none", replaced |-> FALSE]
    /\ input = None
    /\ output = None
    /\ app_rules = << >>
    /\ rule_enabled = << >>
    /\ file \in
          {None, Some(<< >>),
           Some(<<RuleRecord(Rule(nameRule1,
                                  <<Condition(colA, GREATER_THAN, VInt(5))>>,
                                  << >>, VALIDATION_OK, <<"A",">","5">>, << >>),
                             TRUE)>>),
           Some(<<RuleRecord(Rule(nameRule1,
                                  <<Condition(colA, GREATER_THAN, VInt(5))>>,
                                  << >>, VALIDATION_OK, <<"A",">","5">>, << >>),
                             TRUE),
                  RuleRecord(Rule(nameRule2,
                                  <<Condition(colB, LESS_THAN, VInt(10))>>,
                                  << >>, VALIDATION_OK, <<"B","<","1","0">>, << >>),
                             FALSE)>>)}

NextPersist ==
    \/ \E in \in ParseInputs : AddRule(in.expression, in.columns)
    \/ SaveRules
    \/ \E resp \in BOOLEAN : LoadRules(resp)

SpecPersist == InitPersist /\ [][NextPersist]_vars

(***************************************************************************)
(* gui_app.py: the rule list of the app under add_rule, remove_rule,       *)
(* edit_rule, a double click on a rule and validate_data.  The rules tree  *)
(* holds one item for each rule of the list, with the rule's name, and the *)
(* handlers find the rule of the selected item by that name.               *)
(***************************************************************************)

\* next((i for i, r in enumerate(self.rules) if r.name == rule_name), None)
IndexOfName(rule_name) ==
    IF \E i \in DOMAIN app_rules : app_rules[i].name = rule_name
    THEN Some(CHOOSE i \in DOMAIN app_rules :
                 /\ app_rules[i].name = rule_name
                 /\ \A j \in DOMAIN app_rules : app_rules[j].name = rule_name => i <= j)
    ELSE None

\* del seq[idx]
DelItem(seq, idx) ==
    [i \in 1..(Len(seq) - 1) |-> IF i < idx THEN seq[i] ELSE seq[i + 1]]

\* remove_rule with the item of a rule named rule_name selected: the first
\* rule of that name leaves the app's list; the parser is not called
RemoveRule(rule_name) ==
    LET Delete(idx) ==
            /\ app_rules' = DelItem(app_rules, idx.v)
            /\ rule_enabled' = DelItem(rule_enabled, idx.v)
    IN /\ IndexOfName(rule_name).some
       /\ Delete(IndexOfName(rule_name))
       /\ ret' = [op |-> "remove_rule", exc |-> "none", args |-> << >>]
       /\ UNCHANGED <<rules, rules_by_name, results, call, input, output, file>>

\* edit_rule with the item of a rule named rule_name selected and new_text
\* saved in the dialog: the text is parsed under the same name, which adds
\* the new rule to the parser, and the new rule, which has no attribute
\* enabled, takes the place of the first rule of that name in the app's list
EditRule(rule_name, new_text, columns) ==
    LET Replace(idx, new_rule) ==
            /\ rules' = Append(rules, new_rule)
            /\ rules_by_name' = SetItem(rules_by_name, new_rule.name, new_rule)
            /\ app_rules' = [app_rules EXCEPT ![idx.v] = new_rule]
            /\ rule_enabled' = [rule_enabled EXCEPT ![idx.v] = TRUE]
    IN /\ IndexOfName(rule_name).some
       /\ Strip(new_text) # << >>
       /\ Len(rules) < MaxParsed
       /\ Replace(IndexOfName(rule_name),
                  BuildRule(Strip(new_text), columns, Some(rule_name), Len(rules)))
       /\ ret' = [op |-> "edit_rule", exc |-> "none", args |-> << >>]
       /\ UNCHANGED <<results, call, input, output, file>>

\* on_rule_double_click on the item of a rule named rule_name: the attribute
\* enabled of the first rule of that name is set to the negation of what it
\* was, True for a rule without the attribute
OnRuleDoubleClick(rule_name) ==
    LET Toggle(idx) ==
            rule_enabled' = [rule_enabled EXCEPT ![idx.v] = ~rule_enabled[idx.v]]
    IN /\ IndexOfName(rule_name).some
       /\ Toggle(IndexOfName(rule_name))
       /\ ret' = [op |-> "on_rule_double_click", exc |-> "none", args |-> << >>]
       /\ UNCHANGED <<rules, rules_by_name, results, call, input, output,
                       app_rules, file>>

\* [r for r in self.rules if getattr(r, 'enabled', True)]
EnabledRules ==
    LET Kept == {i \in DOMAIN app_rules : rule_enabled[i]}
        Nth(k) == CHOOSE i \in Kept : Cardinality({j \in Kept : j < i}) = k - 1
    IN [k \in 1..Cardinality(Kept) |-> app_rules[Nth(k)]]

\* validate_data with data loaded and a rule in the list: the engine
\* validates the data against the enabled rules
ValidateData(data) ==
    /\ app_rules # << >>
    /\ Validate(data, EnabledRules)

\* the expressions entered in the app: A>5, B<10 and A=B
GuiTexts == {<<"A",">","5">>, <<"B","<","1","0">>, <<"A","=","B">>}

\* the data loaded in the app, with the columns A and B
GuiData == <<Row2(colA, VInt(6), colB, VInt(3)), Row2(colA, VInt(2), colB, VInt(12))>>

NextGui ==
    \/ \E text \in GuiTexts : AddRule(text, ColumnsAB)
    \/ \E i \in DOMAIN app_rules : RemoveRule(app_rules[i].name)
    \/ \E i \in DOMAIN app_rules : \E text \in GuiTexts :
          EditRule(app_rules[i].name, text, ColumnsAB)
    \/ \E i \in DOMAIN app_rules : OnRuleDoubleClick(app_rules[i].name)
    \/ ValidateData(GuiData)

SpecGui == Init /\ [][NextGui]_vars

(***************************************************************************)
(* Properties                                                              *)
(***************************************************************************)

\* the rule and the row of the k-th result of the last validate call: its
\* loops append the results row by row and, for one row, rule by rule
ResultRule(k) == call.rules[((k - 1) % Len(call.rules)) + 1]

ResultRow(k) == call.data[((k - 1) \div Len(call.rules)) + 1]

\* the expressions column="text" and column<op>other
DOUBLE_QUOTE == <<"\"">>

QuotedEquality(column, text) == column \o EQUAL \o DOUBLE_QUOTE \o text \o DOUBLE_QUOTE

Comparison(column, op, other) == column \o op \o other

\* C1: a validate call that returns gives exactly one result for each
\* (row, rule) pair: rows x rules results, row by row in the order of the
\* table and, for one row, rule by rule in the order of the rules list, each
\* with the row_index, the rule_name and the row of its pair.
C1_OneResultPerPair ==
    (ret.op = "validate" /\ ret.exc = "none") =>
        /\ Len(results) = Len(call.data) * Len(call.rules)
        /\ \A i \in 1..Len(call.data) : \A j \in 1..Len(call.rules) :
              /\ results[(i - 1) * Len(call.rules) + j].row_index = i - 1
              /\ results[(i - 1) * Len(call.rules) + j].rule_name = call.rules[j].name
              /\ results[(i - 1) * Len(call.rules) + j].row_data = call.data[i]

\* validate returned the results of two rows and two rules of different names
C1_Witness ==
    /\ ret.op = "validate"
    /\ ret.exc = "none"
    /\ Len(call.data) = 2
    /\ Len(call.rules) = 2
    /\ call.rules[1].name # call.rules[2].name
    /\ Len(results) = 4
    /\ results[2].row_index = 0
    /\ results[2].rule_name = call.rules[2].name
    /\ results[3].row_index = 1
    /\ results[3].rule_name = call.rules[1].name

\* C2: parse_rule on an expression that is not a rule-reference expression
\* and gives no condition fails with a ParseError.
C2_NoConditionRaisesParseError ==
    (/\ ret.op = "parse_rule"
     /\ ~_is_rule_reference_expression(Strip(ret.args.expression))
     /\ _parse_expression(Strip(ret.args.expression),
                          ret.args.available_columns).conditions = << >>)
        => ret.exc = "ParseError"

\* C3: for column="text" with text the name of a column, parse_rule stores
\* the value '__LITERAL__' + text, validate compares the column against the
\* text itself on every row, and on the row {Status: Active, Active: No} the
\* quoted rule and the rule Status=Active give different outcomes.
C3_QuotedValueIsLiteral ==
    /\ ret.op = "parse_rule" =>
          \A column, text \in Range(ret.args.available_columns) :
              Strip(ret.args.expression) = QuotedEquality(column, text) =>
                  rules[Len(rules)].conditions =
                      <<Condition(column, EQUAL, VStr(LITERAL_PREFIX \o text))>>
    /\ \A k \in DOMAIN results :
          \A column, text \in DOMAIN ResultRow(k) :
              ResultRule(k).description = QuotedEquality(column, text) =>
                  results[k].passed =
                      CompareValues(EQUAL, ResultRow(k)[column], VStr(text)).val
    /\ \A k, k2 \in DOMAIN results :
          (/\ results[k].row_index = results[k2].row_index
           /\ ResultRow(k) = Row2(colStatus, strActive, colActive, strNo)
           /\ ResultRule(k).description = QuotedEquality(colStatus, colActive)
           /\ ResultRule(k2).description = Comparison(colStatus, EQUAL, colActive))
              => results[k].passed # results[k2].passed

\* C4: for column<op>other with other the unquoted name of a column,
\* parse_rule stores the name other as the value of the condition, and on
\* each row validate compares the row's value of column with the same row's
\* value of other: for two int cells, by comparing the two integers.
C4_ColumnReferenceReadPerRow ==
    LET CompareInts(op, a, b) ==
            CASE op = GREATER_THAN  -> a > b
              [] op = LESS_THAN     -> a < b
              [] op = GREATER_EQUAL -> a >= b
              [] op = LESS_EQUAL    -> a <= b
              [] op = EQUAL         -> a = b
              [] op = NOT_EQUAL     -> a # b
    IN
    /\ ret.op = "parse_rule" =>
          \A column, other \in Range(ret.args.available_columns) :
              \A op \in Range(operators) :
                  Strip(ret.args.expression) = Comparison(column, op, other) =>
                      rules[Len(rules)].conditions =
                          <<Condition(column, op, VStr(other))>>
    /\ \A k \in DOMAIN results :
          \A column, other \in DOMAIN ResultRow(k) :
              \A op \in Range(operators) :
                  ResultRule(k).description = Comparison(column, op, other) =>
                      /\ results[k].passed =
                            CompareValues(op, ResultRow(k)[column],
                                          ResultRow(k)[other]).val
                      /\ (/\ ResultRow(k)[column].t = "int"
                          /\ ResultRow(k)[other].t = "int")
                            => results[k].passed =
                                  CompareInts(op, ResultRow(k)[column].m,
                                              ResultRow(k)[other].m)

\* one call of validate with the rule A>B passed a row whose A is greater
\* than its B and failed a row whose A is not
C4_Witness ==
    \E k, k2 \in DOMAIN results :
        /\ ResultRule(k).description = Comparison(colA, GREATER_THAN, colB)
        /\ ResultRule(k).conditions = <<Condition(colA, GREATER_THAN, VStr(colB))>>
        /\ ResultRule(k2) = ResultRule(k)
        /\ {colA, colB} \subseteq DOMAIN ResultRow(k) \cap DOMAIN ResultRow(k2)
        /\ ResultRow(k)[colA].m > ResultRow(k)[colB].m
        /\ results[k].passed
        /\ ResultRow(k2)[colA].m <= ResultRow(k2)[colB].m
        /\ ~results[k2].passed

\* C5: _combine_conditions gives false for no result, the result for one
\* result and, for n results and n - 1 operators, the fold from the left
\* acc := acc op_i results[i + 1], AND and OR having the same precedence, so
\* [c0, c1, c2] with [OR, AND] gives (c0 OR c1) AND c2.
C5_LeftToRightFold ==
    output.some =>
        LET cr  == input.v.condition_results
            ops == input.v.logical_ops
        IN /\ cr = << >> => output.v = FALSE
           /\ Len(cr) = 1 => output.v = cr[1]
           /\ (Len(cr) > 1 /\ Len(ops) = Len(cr) - 1) =>
                 \E acc \in [1..Len(cr) -> BOOLEAN] :
                     /\ acc[1] = cr[1]
                     /\ \A i \in 1..Len(ops) :
                           acc[i + 1] = IF ops[i] = AND
                                        THEN acc[i] /\ cr[i + 1]
                                        ELSE acc[i] \/ cr[i + 1]
                     /\ output.v = acc[Len(cr)]
           /\ (Len(cr) = 3 /\ ops = <<OR, AND>>) =>
                 output.v = ((cr[1] \/ cr[2]) /\ cr[3])

\* [true, false, false] with [OR, AND] gave false, where true OR (false AND
\* false) is true
C5_Witness ==
    /\ output.some
    /\ input.v.condition_results = <<TRUE, FALSE, FALSE>>
    /\ input.v.logical_ops = <<OR, AND>>
    /\ output.v = FALSE

\* C6: after any parse_rule calls every name occurs once in rules, the names
\* in rules are the keys of rules_by_name, and rules_by_name[name] is the
\* rule of rules with that name.
C6_RegistryInSync ==
    /\ \A i, j \in DOMAIN rules : rules[i].name = rules[j].name => i = j
    /\ {rules[i].name : i \in DOMAIN rules} = DOMAIN rules_by_name
    /\ \A i \in DOMAIN rules : rules_by_name[rules[i].name] = rules[i]

\* C7: the outcome of a reference rule on a row is the fold from the left,
\* with the rule's operators, of the outcomes of the referenced rules on that
\* row; a rule that joins references by AND does not pass on a row on which
\* a referenced rule does not pass.
C7_ReferenceRuleFoldsOutcomes ==
    LET \* the result, on the row of the k-th result, of the rule that the
        \* n-th reference of the k-th result's rule names
        ReferencedOutcome(k, n) ==
            LET j == CHOOSE j \in DOMAIN call.rules :
                        call.rules[j].name =
                            ResultRule(k).rule_references[n].rule_name
            IN results[k - (((k - 1) % Len(call.rules)) + 1) + j].passed
    IN
    /\ \A k \in DOMAIN results :
          LET refs == ResultRule(k).rule_references
              ops  == ResultRule(k).logical_ops
          IN (/\ refs # << >>
              /\ Len(ops) = Len(refs) - 1
              /\ k - (((k - 1) % Len(call.rules)) + 1) + Len(call.rules) <= Len(results)
              /\ \A n \in DOMAIN refs :
                    Cardinality({j \in DOMAIN call.rules :
                                   call.rules[j].name = refs[n].rule_name}) = 1)
                => \E acc \in [1..Len(refs) -> BOOLEAN] :
                      /\ acc[1] = ReferencedOutcome(k, 1)
                      /\ \A i \in 1..Len(ops) :
                            acc[i + 1] = IF ops[i] = AND
                                         THEN acc[i] /\ ReferencedOutcome(k, i + 1)
                                         ELSE acc[i] \/ ReferencedOutcome(k, i + 1)
                      /\ results[k].passed = acc[Len(refs)]
    /\ \A k, k2 \in DOMAIN results :
          (/\ ResultRule(k).rule_references # << >>
           /\ \A i \in DOMAIN ResultRule(k).logical_ops :
                 ResultRule(k).logical_ops[i] = AND
           /\ results[k2].row_index = results[k].row_index
           /\ ResultRule(k2).rule_references = << >>
           /\ \E n \in DOMAIN ResultRule(k).rule_references :
                 ResultRule(k).rule_references[n].rule_name = results[k2].rule_name
           /\ ~results[k2].passed)
              => ~results[k].passed

\* C8: evaluating a condition never raises: validate returns a result for
\* every (row, rule) pair, and a condition whose column the row does not
\* have, or whose operator is >, <, >= or <= and whose cell is no number, is
\* false.
C8_EvaluationNeverRaises ==
    /\ ret.op = "validate" =>
          /\ ret.exc = "none"
          /\ Len(results) = Len(call.data) * Len(call.rules)
    /\ \A k \in DOMAIN results :
          (/\ Len(ResultRule(k).conditions) = 1
           /\ \/ ResultRule(k).conditions[1].column \notin DOMAIN ResultRow(k)
              \/ /\ ResultRule(k).conditions[1].operator \in
                       {GREATER_THAN, LESS_THAN, GREATER_EQUAL, LESS_EQUAL}
                 /\ ToFloat(ResultRow(k)[ResultRule(k).conditions[1].column]).exc
                       # "none")
              => ~results[k].passed

\* C9: get_passed_validations and get_failed_validations keep, in order, the
\* passed and the failed results of the last validate call: no result is in
\* both, every result of that call is in one, self.results holds no result
\* of an earlier call, and in the report Total = Passed + Failed, with the
\* FAILED VALIDATIONS section present exactly when a result failed.
C9_FiltersOfLastCall ==
    LET passed == get_passed_validations(results)
        failed == get_failed_validations(results)
        report == generate_report(results)
        P == {k \in DOMAIN results : results[k].passed}
        F == {k \in DOMAIN results : ~results[k].passed}
        Nth(S, i) == CHOOSE k \in S : Cardinality({x \in S : x <= k}) = i
    IN /\ Len(passed) = Cardinality(P)
       /\ \A i \in DOMAIN passed : passed[i] = results[Nth(P, i)]
       /\ Len(failed) = Cardinality(F)
       /\ \A i \in DOMAIN failed : failed[i] = results[Nth(F, i)]
       /\ \A i \in DOMAIN passed : \A j \in DOMAIN failed : passed[i] # failed[j]
       /\ Len(passed) + Len(failed) = Len(results)
       /\ Len(results) <= Len(call.data) * Len(call.rules)
       /\ call.exc = "none" => Len(results) = Len(call.data) * Len(call.rules)
       /\ \A k \in DOMAIN results :
             /\ results[k].row_data = ResultRow(k)
             /\ results[k].rule_name = ResultRule(k).name
             /\ results[k].row_index = (k - 1) \div Len(call.rules)
       /\ report[4].n = Len(results)
       /\ report[4].n = report[5].n + report[6].n
       /\ (\E i \in DOMAIN report : report[i].line = "FAILED VALIDATIONS:")
             <=> (F # {})

\* a validate call made when self.results held results returned passed and
\* failed results
C9_Witness ==
    /\ ret.op = "validate"
    /\ call.replaced
    /\ call.exc = "none"
    /\ get_passed_validations(results) # << >>
    /\ get_failed_validations(results) # << >>
    /\ Len(get_passed_validations(results)) + Len(get_failed_validations(results))
          = Len(call.data) * Len(call.rules)

\* C10 as the specification states it: every rule with conditions and no
\* references has one logical operator less than it has conditions.
C10_OneOperatorLess ==
    \A k \in DOMAIN rules :
        (rules[k].rule_references = << >> /\ rules[k].conditions # << >>)
            => Len(rules[k].logical_ops) = Len(rules[k].conditions) - 1

\* C10: every rule with conditions and no references has at least one
\* logical operator less than it has conditions: it has at most one
\* condition for each segment of its expression and at least one operator
\* for each separator between two segments; A>B AND B<10 gives two
\* conditions and the one operator AND.
C10_AtLeastOneOperatorLess ==
    \A k \in DOMAIN rules :
        rules[k].rule_references = << >> =>
            /\ Len(rules[k].logical_ops) >= Len(rules[k].conditions) - 1
            /\ Len(rules[k].conditions)
                  <= Len(SplitConditionParts(rules[k].description))
            /\ Len(rules[k].logical_ops)
                  >= Len(SplitConditionParts(rules[k].description)) - 1
            /\ rules[k].description = exprTwoConditions =>
                  /\ Len(rules[k].conditions) = 2
                  /\ rules[k].logical_ops = <<AND>>

\* the parser holds a rule with one condition and one operator and a rule
\* with two conditions and one operator
C10_Witness ==
    \E k, k2 \in DOMAIN rules :
        /\ rules[k].rule_references = << >>
        /\ Len(rules[k].conditions) = 1
        /\ Len(rules[k].logical_ops) = 1
        /\ rules[k2].description = exprTwoConditions
        /\ Len(rules[k2].conditions) = 2
        /\ Len(rules[k2].logical_ops) = 1

\* C11: every rule parse_rule produced is of exactly one kind: a condition
\* rule, with conditions and no rule references, or a reference rule, with
\* rule references and no conditions; none has both and none has neither.
C11_ExactlyOneKind ==
    \A k \in DOMAIN rules :
        \/ rules[k].conditions # << >> /\ rules[k].rule_references = << >>
        \/ rules[k].conditions = << >> /\ rules[k].rule_references # << >>

\* C13: a validate call over a non-empty table with a reference rule that
\* names a rule held neither by the parser's registry nor by the rules of the
\* call fails with an unresolved-reference error, and reports no result,
\* passed or failed, for that rule.
C13_UnresolvedReferenceSurfaced ==
    ret.op = "validate" =>
        \A j \in DOMAIN call.rules :
            (/\ call.data # << >>
             /\ \E n \in DOMAIN call.rules[j].rule_references :
                   /\ call.rules[j].rule_references[n].rule_name
                         \notin DOMAIN rules_by_name
                   /\ \A i \in DOMAIN call.rules :
                         call.rules[i].name
                             # call.rules[j].rule_references[n].rule_name)
                => /\ ret.exc = "UnresolvedReference"
                   /\ \A k \in DOMAIN results :
                         results[k].rule_name # call.rules[j].name

C19_ValueResolutionOrder ==
    LET quotes == {"\"", "'"}
        Plain(token) ==
            /\ token # << >>
            /\ \A i \in DOMAIN token : token[i] \in WordSet \cup {"."} \cup quotes
        Quoted(token) ==
            /\ Len(token) >= 3
            /\ token[1] \in quotes
            /\ token[Len(token)] \in quotes
        Float(f) == NormFloat(f.m, f.d)
        Expected(token, columns) ==
            IF Quoted(token)
            THEN VStr(LITERAL_PREFIX \o SubSeq(token, 2, Len(token) - 1))
            ELSE IF token \in Range(columns) THEN VStr(token)
            ELSE IF IsIntLiteral(token) THEN VInt(ParseInt(token))
            ELSE IF IsFloatLiteral(token) THEN Float(ParseFloat(token))
            ELSE VStr(token)
        Resolved(e, column, token, columns) ==
            (StartsWith(e, column \o EQUAL) /\ Plain(token)) =>
                rules[Len(rules)].conditions =
                    <<Condition(column, EQUAL, Expected(token, columns))>>
        Call(e, columns) ==
            \A column \in Range(columns) :
                Resolved(e, column, Slice(e, Len(column) + 2, Len(e)), columns)
    IN ret.op = "parse_rule" =>
          Call(Strip(ret.args.expression), ret.args.available_columns)

\* C20 as the specification states it: the condition of a segment with no
\* string operator has the first operator of >=, <=, !=, >, <, = that occurs
\* in the segment and the sides of the split at that operator's first
\* occurrence, and the segment is dropped when neither side of that split
\* names a column.
C20_FirstOperatorOrDropped ==
    LET Segment(seg, columns) ==
            LET Occ == {i \in DOMAIN operators : Contains(operators[i], seg)}
                Side(i, n) == Strip(SplitOnce(seg, operators[i])[n])
                Left(i) == _find_column(Side(i, 1), columns)
                Right(i) == _find_column(Side(i, 2), columns)
                CondAt(i) ==
                    IF Truthy(Left(i))
                    THEN <<Condition(Left(i).v, operators[i],
                                     _parse_value(Side(i, 2), columns))>>
                    ELSE IF Truthy(Right(i))
                    THEN <<Condition(Right(i).v, operators[i],
                                     _parse_value(Side(i, 1), columns))>>
                    ELSE << >>
            IN rules[Len(rules)].conditions =
                  IF Occ = {} THEN << >>
                  ELSE CondAt(CHOOSE i \in Occ : \A j \in Occ : i <= j)
        Call(e, seg, columns) ==
            (/\ ~_is_rule_reference_expression(e)
             /\ Len(SplitConditionParts(e)) = 1
             /\ seg # << >>
             /\ ~Contains(CONTAINS, Lower(seg))
             /\ ~Contains(STARTS_WITH, Lower(seg))
             /\ ~Contains(ENDS_WITH, Lower(seg)))
                => Segment(seg, columns)
        Stripped(e, columns) ==
            Call(e, Strip(StripSet(e, {"(", ")"})), columns)
    IN ret.op = "parse_rule" =>
          Stripped(Strip(ret.args.expression), ret.args.available_columns)

\* C20: the condition of a segment with no string operator comes from the
\* first operator of >=, <=, !=, >, <, =, among those that occur in the
\* segment, whose split at its first occurrence has a side that names a
\* column: it has that operator, that column and the other side as its
\* value; the segment is dropped only when no operator that occurs gives
\* such a split.
C20_FirstOperatorThatNamesAColumn ==
    LET Segment(seg, columns) ==
            LET Side(i, n) == Strip(SplitOnce(seg, operators[i])[n])
                Left(i) == _find_column(Side(i, 1), columns)
                Right(i) == _find_column(Side(i, 2), columns)
                Good == {i \in DOMAIN operators :
                            /\ Contains(operators[i], seg)
                            /\ Truthy(Left(i)) \/ Truthy(Right(i))}
                CondAt(i) ==
                    IF Truthy(Left(i))
                    THEN <<Condition(Left(i).v, operators[i],
                                     _parse_value(Side(i, 2), columns))>>
                    ELSE <<Condition(Right(i).v, operators[i],
                                     _parse_value(Side(i, 1), columns))>>
            IN rules[Len(rules)].conditions =
                  IF Good = {} THEN << >>
                  ELSE CondAt(CHOOSE i \in Good : \A j \in Good : i <= j)
        Call(e, seg, columns) ==
            (/\ ~_is_rule_reference_expression(e)
             /\ Len(SplitConditionParts(e)) = 1
             /\ seg # << >>
             /\ ~Contains(CONTAINS, Lower(seg))
             /\ ~Contains(STARTS_WITH, Lower(seg))
             /\ ~Contains(ENDS_WITH, Lower(seg)))
                => Segment(seg, columns)
        Stripped(e, columns) ==
            Call(e, Strip(StripSet(e, {"(", ")"})), columns)
    IN ret.op = "parse_rule" =>
          Stripped(Strip(ret.args.expression), ret.args.available_columns)

\* parse_rule returned the condition A = '>5' for A=>5, whose split at > has
\* no side that names a column
C20_Witness ==
    /\ ret.op = "parse_rule"
    /\ Strip(ret.args.expression) = <<"A", "=", ">", "5">>
    /\ ret.args.available_columns = ColumnsAB
    /\ rules[Len(rules)].conditions =
          <<Condition(colA, EQUAL, VStr(<<">", "5">>))>>

\* C12 as the specification states it: on every row, for every column name
\* and every value, the NOT_EQUAL condition gives the negation of what the
\* EQUAL condition gives.
C12_NotEqualNegatesEqual ==
    \A i, j \in DOMAIN output :
        (/\ output[i].operator = EQUAL
         /\ output[j].operator = NOT_EQUAL
         /\ output[i].exc = "none"
         /\ output[j].exc = "none")
            => output[j].val = ~output[i].val

\* C12: on a row that has the column, the EQUAL and the NOT_EQUAL condition
\* with the same column and value either both return, and then NOT_EQUAL
\* gives the negation of EQUAL (the numbers compared when both sides convert
\* to float, the trimmed strings without regard to case when a conversion
\* fails with ValueError or TypeError), or both raise the same exception; on
\* a row that does not have the column both give false.
C12_NotEqualNegatesEqualOnPresentColumn ==
    \A i, j \in DOMAIN output :
        (output[i].operator = EQUAL /\ output[j].operator = NOT_EQUAL)
            => /\ output[i].exc = output[j].exc
               /\ (input.v.column \in DOMAIN input.v.row /\ output[i].exc = "none")
                     => output[j].val = ~output[i].val
               /\ input.v.column \notin DOMAIN input.v.row
                     => /\ output[i].exc = "none"
                        /\ ~output[i].val
                        /\ ~output[j].val

\* on a row whose A is ' yes ', A = 'YES' gave true and A != 'YES' gave
\* false, by the comparison of the strings
C12_Witness ==
    /\ input.v.column = colA
    /\ input.v.row[colA] = VStr(<<" ","y","e","s"," ">>)
    /\ input.v.value = strYES
    /\ \E i, j \in DOMAIN output :
          /\ output[i].operator = EQUAL
          /\ output[i].exc = "none"
          /\ output[i].val
          /\ output[j].operator = NOT_EQUAL
          /\ output[j].exc = "none"
          /\ ~output[j].val

\* C16: an EQUAL condition on a row that has the column is true exactly when
\* both sides convert to numbers and the numbers are equal or, when a side
\* does not convert, when the two sides are equal as strings after trimming
\* and without regard to case; the sides are the cell and the value of the
\* condition, or the row's cell of the column the value names.
C16_EqualNumericThenString ==
    LET Trimmed(s) == Upper(Strip(s))
        Expected(a, b, x, y) ==
            IF a.exc = "none" /\ b.exc = "none"
            THEN a.m * Pow10(b.d) = b.m * Pow10(a.d)
            ELSE Trimmed(Str(x)) = Trimmed(Str(y))
        Sides(x, y) == Expected(ToFloat(x), ToFloat(y), x, y)
        Other(row, value) ==
            IF IsStr(value) /\ value.s \in DOMAIN row THEN row[value.s] ELSE value
    IN \A i \in DOMAIN output :
          (output[i].operator = EQUAL /\ input.v.column \in DOMAIN input.v.row)
              => ((output[i].exc = "none" /\ output[i].val)
                    <=> Sides(input.v.row[input.v.column],
                              Other(input.v.row, input.v.value)))

\* C15: for column contains / starts_with / ends_with "text", validate
\* compares the row's value of the column with the quoted text itself on
\* every row, also when the text is the name of a column of the row.
C15_QuotedTextOfStringOperator ==
    LET Holds(op, c, v) ==
            CASE op = CONTAINS ->
                   \E p \in 1..(Len(c) - Len(v) + 1) : SubSeq(c, p, p + Len(v) - 1) = v
              [] op = STARTS_WITH ->
                   Len(v) <= Len(c) /\ SubSeq(c, 1, Len(v)) = v
              [] op = ENDS_WITH ->
                   Len(v) <= Len(c) /\ SubSeq(c, Len(c) - Len(v) + 1, Len(c)) = v
        Compared(k, cond, row) ==
            (/\ cond.operator \in {CONTAINS, STARTS_WITH, ENDS_WITH}
             /\ cond.column \in DOMAIN row)
                => results[k].passed =
                      Holds(cond.operator, Lower(Str(row[cond.column])),
                            Lower(cond.value.s))
    IN \A k \in DOMAIN results :
          Len(ResultRule(k).conditions) = 1 =>
              Compared(k, ResultRule(k).conditions[1], ResultRow(k))

\* C17: a CONTAINS, STARTS_WITH or ENDS_WITH condition compares str(cell)
\* and str(comparison value) in small letters: CONTAINS is true iff the
\* value is a substring of the cell, STARTS_WITH iff it is a prefix,
\* ENDS_WITH iff it is a suffix; voltage contains "cc_r" over the rows
\* cc_r_123, abc, test_cc_r, xyz gives true, false, true, false.  The
\* comparison value is the value of the condition or, when that names a
\* column of the row, the row's cell of that column.
C17_StringOperatorsFoldCase ==
    LET Holds(op, c, v) ==
            CASE op = CONTAINS ->
                   \E p \in 1..(Len(c) - Len(v) + 1) : SubSeq(c, p, p + Len(v) - 1) = v
              [] op = STARTS_WITH ->
                   Len(v) <= Len(c) /\ SubSeq(c, 1, Len(v)) = v
              [] op = ENDS_WITH ->
                   Len(v) <= Len(c) /\ SubSeq(c, Len(c) - Len(v) + 1, Len(c)) = v
        Other(row, value) ==
            IF IsStr(value) /\ value.s \in DOMAIN row THEN row[value.s] ELSE value
        Compared(k, cond, row) ==
            (/\ cond.operator \in {CONTAINS, STARTS_WITH, ENDS_WITH}
             /\ cond.column \in DOMAIN row)
                => results[k].passed =
                      Holds(cond.operator, Lower(Str(row[cond.column])),
                            Lower(Str(Other(row, cond.value))))
        cc_r == <<"c","c","_","r">>
    IN /\ \A k \in DOMAIN results :
             Len(ResultRule(k).conditions) = 1 =>
                 Compared(k, ResultRule(k).conditions[1], ResultRow(k))
       /\ (/\ ret.op = "validate"
           /\ Len(call.rules) = 1
           /\ call.rules[1].conditions = <<Condition(colVoltage, CONTAINS, VStr(cc_r))>>
           /\ Len(call.data) = 4
           /\ \A i \in 1..4 : colVoltage \in DOMAIN call.data[i]
           /\ [i \in 1..4 |-> call.data[i][colVoltage]] =
                 <<VStr(cc_r \o <<"_","1","2","3">>), VStr(<<"a","b","c">>),
                   VStr(<<"t","e","s","t","_">> \o cc_r), VStr(<<"x","y","z">>)>>)
             => [i \in 1..4 |-> results[i].passed] = <<TRUE, FALSE, TRUE, FALSE>>

\* validate with the one rule voltage contains "cc_r" returned the results
\* true, false, true, false, and a call with voltage starts_with "CC_R"
\* passed the row cc_r_123
C17_Witness ==
    /\ ret.op = "validate"
    /\ ret.exc = "none"
    /\ Len(call.data) = 4
    /\ Len(results) = 4 * Len(call.rules)
    /\ \E j \in DOMAIN call.rules :
          /\ call.rules[j].conditions =
                <<Condition(colVoltage, CONTAINS, VStr(<<"c","c","_","r">>))>>
          /\ [i \in 1..4 |-> results[(i - 1) * Len(call.rules) + j].passed]
                = <<TRUE, FALSE, TRUE, FALSE>>
    /\ \E j \in DOMAIN call.rules :
          /\ call.rules[j].conditions =
                <<Condition(colVoltage, STARTS_WITH, VStr(<<"C","C","_","R">>))>>
          /\ colVoltage \in DOMAIN call.data[1]
          /\ results[j].passed

\* C14: save_rules writes, for each rule of the app, a record with the
\* rule's name, conditions, logical_ops, action, rule_references and
\* enabled, and load_rules reads each record back into a rule with these
\* same fields; after a load that replaces, the parser's rules list and its
\* name index hold exactly the rules of the file.
C14_SaveLoadRoundTrip ==
    LET Same(rule, record) ==
            /\ rule.name = record.name
            /\ RuleRecord(rule, record.enabled) = record
        Saved ==
            /\ ret.exc = "none"
            /\ file.some
            /\ Len(file.v) = Len(app_rules)
            /\ \A i \in DOMAIN app_rules : Same(app_rules[i], file.v[i])
        Loaded ==
            /\ ret.exc = "none"
            /\ Len(rules) >= Len(file.v)
            /\ \A i \in DOMAIN file.v :
                  /\ Same(rules[Len(rules) - Len(file.v) + i], file.v[i])
                  /\ file.v[i].name \in DOMAIN rules_by_name
                  /\ rules_by_name[file.v[i].name].name = file.v[i].name
            /\ app_rules = rules
            /\ DOMAIN rules_by_name = {rules[i].name : i \in DOMAIN rules}
    IN /\ ret.op = "save_rules" => Saved
       /\ ret.op = "load_rules" => Loaded

\* C21: when parse_rule is given a comparison of a token with 5, the column
\* of the parsed condition is the first of available_columns, in their order,
\* whose name equals the token ignoring case, in the column's own spelling
\* and also when a later column is spelled exactly as the token; when no
\* column equals the token ignoring case the segment gives no condition
C21_FirstColumnIgnoringCase ==
    (ret.op = "parse_rule" /\ ret.exc = "none") =>
        \A tok \in {<<"A">>, <<"a">>, <<"Z">>} : \A op \in {<<">">>, <<"<">>} :
            ret.args.expression = tok \o op \o <<"5">> =>
                LET cols == ret.args.available_columns
                    hits == {i \in DOMAIN cols : Lower(cols[i]) = Lower(tok)}
                    rule == rules[Len(rules)]
                IN IF hits = {} THEN rule.conditions = << >>
                   ELSE /\ Len(rule.conditions) = 1
                        /\ \E i \in hits :
                              /\ \A j \in hits : i <= j
                              /\ rule.conditions[1].column = cols[i]

\* parse_rule was given A>5 with the columns a and A, and the condition is on
\* the column a
C21_Witness ==
    /\ ret.op = "parse_rule"
    /\ ret.args.expression = <<"A",">","5">>
    /\ ret.args.available_columns = <<<<"a">>, <<"A">>>>
    /\ Len(rules[Len(rules)].conditions) = 1
    /\ rules[Len(rules)].conditions[1].column = <<"a">>

\* C22: when parse_rule is given three segments joined by AND or OR, it
\* returns without raising and the conditions of the rule are the conditions
\* of the segments that parse on their own, in the order of the segments; a
\* segment that names no column, has no operator or is a string operation
\* without quotes gives no condition
C22_UnparseableSegmentsOmitted ==
    ret.op = "parse_rule" =>
        LET Segments == {<<"A",">","5">>, <<"Z","<","3">>, <<"B","<","1","0">>, <<"B">>,
                         <<"A"," ","c","o","n","t","a","i","n","s"," ","B">>, <<"Z",">","1">>}
            Separators == {<<" ","A","N","D"," ">>, <<" ","O","R"," ">>}
            Cond(seg, cols) ==
                IF _parse_single_condition(seg, cols).some
                THEN <<_parse_single_condition(seg, cols).v>>
                ELSE << >>
            Joined(e, cols, rule) ==
                \A s1 \in Segments : \A s2 \in Segments : \A s3 \in Segments :
                    \A p1 \in Separators : \A p2 \in Separators :
                        e = s1 \o p1 \o s2 \o p2 \o s3 =>
                            rule.conditions
                               = Cond(s1, cols) \o Cond(s2, cols) \o Cond(s3, cols)
        IN /\ ret.exc = "none"
           /\ Joined(ret.args.expression, ret.args.available_columns,
                     rules[Len(rules)])

\* parse_rule was given A>5 AND Z<3 AND B<10 and returned a rule whose
\* conditions are A>5 and B<10
C22_Witness ==
    /\ ret.op = "parse_rule"
    /\ ret.exc = "none"
    /\ ret.args.expression = <<"A",">","5"," ","A","N","D"," ","Z","<","3"," ","A","N","D"," ","B","<","1","0">>
    /\ rules[Len(rules)].conditions
          = <<Condition(colA, GREATER_THAN, VInt(5)), Condition(colB, LESS_THAN, VInt(10))>>

\* C25: a rule written with the value on the left of the operator, 5<A or
\* 5>=A, passes on a row whose cell of A is an int exactly when the relation
\* holds as written, 5 < row[A] or 5 >= row[A]
C25_ValueOnLeftKeepsRelation ==
    (ret.op = "validate" /\ call.exc = "none" /\ call.rules # << >>) =>
        \A k \in DOMAIN results :
            (colA \in DOMAIN ResultRow(k) /\ ResultRow(k)[colA].t = "int") =>
                /\ ResultRule(k).description = <<"5","<","A">> =>
                      (results[k].passed <=> 5 < ResultRow(k)[colA].m)
                /\ ResultRule(k).description = <<"5",">","=","A">> =>
                      (results[k].passed <=> 5 >= ResultRow(k)[colA].m)

\* C26: when parse_rule is given column starts_with "text" or column
\* ends_with "text" and the column is one of available_columns, the rule has
\* one condition and its operator is the keyword written between the column
\* and the quoted text, also when the text or the column name holds one of
\* the words contains, starts_with and ends_with
C26_OperatorIsTheKeywordWritten ==
    ret.op = "parse_rule" =>
        \A col \in {colA, <<"c","o","n","t","a","i","n","s","_","x">>} :
        \A kw \in {STARTS_WITH, ENDS_WITH} :
        \A text \in {<<"a">>, <<"b">>, CONTAINS, STARTS_WITH} :
            (/\ ret.args.expression
                   = col \o <<" ">> \o kw \o <<" ">> \o DOUBLE_QUOTE \o text \o DOUBLE_QUOTE
             /\ \E i \in DOMAIN ret.args.available_columns :
                   ret.args.available_columns[i] = col)
            => /\ Len(rules[Len(rules)].conditions) = 1
               /\ rules[Len(rules)].conditions[1].column = col
               /\ rules[Len(rules)].conditions[1].operator = kw

C24_OperatorsAsWrittenBetweenSegments ==
    LET Segments == {<<"A",">","B">>, <<"B","<","1","0">>, <<"A","=","O","R">>, <<"A",">","5">>, <<"Z","<","3">>}
        Written(rule, s1, w, s2) ==
            /\ rule.description = s1 \o <<" ">> \o w \o <<" ">> \o s2
            /\ Len(rule.conditions) = 2
        Joined(w, c1, c2) ==
            (c1.exc = "none" /\ c2.exc = "none")
                => IF w = AND_WORD THEN c1.val /\ c2.val ELSE c1.val \/ c2.val
    IN \A s1 \in Segments : \A s2 \in Segments : \A w \in {AND_WORD, OR_WORD} :
          /\ \A k \in DOMAIN rules :
                Written(rules[k], s1, w, s2) =>
                    rules[k].logical_ops[1] = (IF w = AND_WORD THEN AND ELSE OR)
          /\ (ret.op = "validate" /\ call.exc = "none" /\ call.rules # << >>) =>
                \A k \in DOMAIN results :
                    Written(ResultRule(k), s1, w, s2) =>
                        (results[k].passed
                            <=> Joined(w,
                                       _evaluate_condition(ResultRow(k),
                                                           ResultRule(k).conditions[1]),
                                       _evaluate_condition(ResultRow(k),
                                                           ResultRule(k).conditions[2])))

\* C29: a parse_rule call whose expression is no reference expression and
\* gives no condition leaves rules and rules_by_name as they were
C29_NoConditionLeavesRegistry ==
    [][(/\ ret'.op = "parse_rule"
        /\ ~_is_rule_reference_expression(Strip(ret'.args.expression))
        /\ _parse_expression(Strip(ret'.args.expression),
                             ret'.args.available_columns).conditions = << >>)
          => (rules' = rules /\ rules_by_name' = rules_by_name)]_vars

\* C27: in the app, no two rules of the rule list have the same name
C27_RuleNamesUnique ==
    \A i \in DOMAIN app_rules : \A j \in DOMAIN app_rules :
        app_rules[i].name = app_rules[j].name => i = j

\* C28: in the app, the parser's rules are the rules of the app's rule list,
\* and rules_by_name holds exactly their names, each with its rule of the
\* list: a removed rule and the old version of an edited rule are in neither
C28_RegistryHoldsTheRuleList ==
    /\ rules = app_rules
    /\ DOMAIN rules_by_name = {app_rules[i].name : i \in DOMAIN app_rules}
    /\ \A i \in DOMAIN app_rules :
          \E j \in DOMAIN app_rules :
              /\ app_rules[j].name = app_rules[i].name
              /\ rules_by_name[app_rules[i].name] = app_rules[j]

\* C30: an edit_rule step keeps the length of the rule list, the name of
\* every rule and the enabled state of every rule, and changes at most one
\* rule of the list
C30_EditChangesOnlyTheExpression ==
    [][ret'.op = "edit_rule" =>
          /\ Len(app_rules') = Len(app_rules)
          /\ \A i \in DOMAIN app_rules : app_rules'[i].name = app_rules[i].name
          /\ rule_enabled' = rule_enabled
          /\ \E i \in DOMAIN app_rules :
                \A j \in DOMAIN app_rules : j # i => app_rules'[j] = app_rules[j]]_vars

====
